---- MODULE Spec2Model ----
(***************************************************************************)
(* tcping (src/statsprinter.go): processUserInput's validation of the      *)
(* command line, main's cycle retry-resolve / tcpProbe / stdin poll /      *)
(* probe-count limit, the uptime-downtime tracker (handleConnError,        *)
(* handleConnSuccess), the longest-interval records, printStats and        *)
(* shutdown.                                                               *)
(*                                                                         *)
(* Time is a natural number of clock units of one millisecond; the zero    *)
(* time.Time (IsZero) is 0 and the clock starts at 1.  The printer         *)
(* embedded in the tcping struct is the sequence of events written by the  *)
(* latest step.                                                            *)
(***************************************************************************)
EXTENDS Integers, Sequences, FiniteSets, TLC

\* ---------------------------------------------------------------- bounds
\* Probes started in one run of the model.
MaxProbes == 3
\* userInput.intervalBetweenProbes, in clock units.
Interval == 2
\* Probes started in one run of the tracker specification.
TrackerProbes == 4

\* time.Millisecond, in nanoseconds.
NanosPerMilli == 1000000

\* Measured connect durations: shorter than the interval and longer than it.
ConnDurs == {1, Interval + 1}
\* Time one name lookup may take: none, or one clock unit.
ResolveDurs == {0, 1}
\* Values of the -r flag (retryHostnameLookupAfter); 0 is "never".
RetryAfters == {0, 1, 2}
\* Addresses a lookup can select.
Addrs == {"X", "Y"}
\* The zero netip.Addr.
ZeroAddr == "invalid IP"
\* What LookupNetIP followed by selectResolvedIP yields: an address or an error.
LookupResults == Addrs \cup {"lookupError"}
\* What the lookup made at start-up yields.
FirstLookups == {"X", "lookupError"}
\* The name given on the command line when it is no literal address.
HostName == "host.example"
\* A literal of address X in a spelling netip.Addr.String does not produce
\* (as "::0001" is for "::1").
OtherSpellingOfX == "x"
\* Targets given on the command line.
Hostnames == {HostName, "X", OtherSpellingOfX}
\* Values of the -c flag (probesBeforeQuit); 0 is "no limit".
ProbeLimits == {0, MaxProbes - 1}
\* Values of the -I flag; "" is "not given".
IntNames == {"", "eth0"}
\* How many lines are typed on standard input.
MaxLines == 2
\* The small probe counts a snapshot is printed from.
MaxCount == 6
\* How many RTT samples a summary is computed from.
MaxSamples == 3
\* How many addresses a lookup returns.
MaxAddrs == 2
\* The longest -t timeout followed, in milliseconds.
MaxTimeout == 3
\* The addresses a lookup may return: an IPv4 address, two IPv6 addresses and
\* the IPv4 address mapped into IPv6.
ResolvedAddrs == {"192.0.2.1", "2001:db8::1", "2001:db8::2", "::ffff:192.0.2.1"}
\* The lines typed: the Enter key alone or a word.
StdinLines == {"\r\n", "stats\n"}

VARIABLES
    args,         \* the command line, as flag.Parse leaves it
    t,            \* the tcping struct
    now,          \* the wall clock
    pc,           \* where main stands
    tickAt,       \* when the ticker fires next
    tickReady,    \* a tick waits in ticker.C
    stdinPending, \* monitorSTDIN is blocked sending on stdinchan
    connStart,    \* tcpProbe's connStart of the attempt in flight
    probeCount,   \* main's probeCount
    exitCode,     \* -1 while the process runs, else the os.Exit status
    hist,         \* history: the probes recorded so far
    prev,         \* history: the tcping struct before the latest step on it
    last,         \* history: the name of the latest step on the struct
    by,           \* history: the goroutine that took that step
    lookedUp,     \* history: what the latest name lookup yielded
    sigPending,   \* a signal waits in signalHandler's sigChan
    typed,        \* the lines typed on standard input so far
    linesRead     \* how many of them monitorSTDIN has read

\* What the two watcher goroutines have waiting for them.
watch == <<sigPending, typed, linesRead>>

vars == <<args, t, now, pc, tickAt, tickReady, stdinPending, connStart, probeCount,
          exitCode, hist, prev, last, by, lookedUp, sigPending, typed, linesRead>>

\* ------------------------------------------------------------- float32
\* Go's float32 for the values the program computes with it: zero and the
\* positive normal numbers, a number being m * 2^e with 2^23 <= m < 2^24.
\* Every operation rounds its exact result to the nearest float32, ties to the
\* even mantissa. An operation takes its operands as values: each is worked
\* out once, before the operation.
RECURSIVE Pow2(_)
Pow2(n) == IF n = 0 THEN 1 ELSE 2 * Pow2(n - 1)

\* The number of binary digits of n.
RECURSIVE BitLen(_)
BitLen(n) == IF n = 0 THEN 0 ELSE 1 + BitLen(n \div 2)

Float32Zero == [m |-> 0, e |-> 0]

\* The float32 nearest to m * 2^e when m has w binary digits, 0 < m < 2^31.
RoundToWidth(m, e, w) ==
    IF w <= 24
    THEN [m |-> m * Pow2(24 - w), e |-> e - (24 - w)]
    ELSE LET q == m \div Pow2(w - 24)
             r == m % Pow2(w - 24)
             half == Pow2(w - 25)
         IN  IF r > half \/ (r = half /\ q % 2 = 1)
             THEN IF q + 1 = Pow2(24)
                  THEN [m |-> Pow2(23), e |-> e + (w - 24) + 1]
                  ELSE [m |-> q + 1, e |-> e + (w - 24)]
             ELSE [m |-> q, e |-> e + (w - 24)]

\* The float32 nearest to m * 2^e, for 0 <= m < 2^31.
Float32Round(m, e) ==
    CHOOSE x \in {IF mv = 0 THEN Float32Zero ELSE RoundToWidth(mv, ev, wv) :
                    mv \in {m}, ev \in {e}, wv \in {BitLen(m)}} : TRUE

\* x shifted right by d binary digits; what is shifted out is kept as a 1 in
\* the last digit, which is all that rounding needs to know of it.
ShiftRightSticky(x, d) ==
    IF d >= 31 THEN (IF x = 0 THEN 0 ELSE 1)
    ELSE LET q == x \div Pow2(d)
         IN  IF x % Pow2(d) # 0 /\ q % 2 = 0 THEN q + 1 ELSE q

\* float32(n) for an integer 0 <= n < 2^31.
Float32FromInt(n) == Float32Round(n, 0)

\* a + b in float32.
Float32Add(a, b) ==
    CHOOSE x \in {IF av.m = 0 THEN bv
                  ELSE IF bv.m = 0 THEN av
                  ELSE IF av.e >= bv.e
                  THEN Float32Round(av.m * 8 + ShiftRightSticky(bv.m * 8, av.e - bv.e),
                                    av.e - 3)
                  ELSE Float32Round(bv.m * 8 + ShiftRightSticky(av.m * 8, bv.e - av.e),
                                    bv.e - 3) :
                    av \in {a}, bv \in {b}} : TRUE

\* n / d to 28 binary places for 0 < d < 2^24 and n < 2 * d: long division,
\* seven binary digits at a time, with a remainder kept as a 1 in the last
\* digit.
QuotientSticky(n, d) ==
    LET r0 == n % d
        r1 == (r0 * 128) % d
        r2 == (r1 * 128) % d
        r3 == (r2 * 128) % d
        r4 == (r3 * 128) % d
        q == ((((n \div d) * 128 + (r0 * 128) \div d) * 128 + (r1 * 128) \div d) * 128
                 + (r2 * 128) \div d) * 128 + (r3 * 128) \div d
    IN  IF r4 # 0 /\ q % 2 = 0 THEN q + 1 ELSE q

\* a / b in float32, for b # 0.
Float32Div(a, b) ==
    CHOOSE x \in {IF av.m = 0 THEN Float32Zero
                  ELSE Float32Round(QuotientSticky(av.m, bv.m), av.e - bv.e - 28) :
                    av \in {a}, bv \in {b}} : TRUE

\* a * k in float32, for an integer 0 <= k <= 127.
Float32MulInt(a, k) ==
    CHOOSE x \in {Float32Round(av.m * k, av.e) : av \in {a}} : TRUE

\* a < b.
Float32Less(a, b) ==
    \E av \in {a}, bv \in {b} :
        IF bv.m = 0 THEN FALSE
        ELSE IF av.m = 0 THEN TRUE
        ELSE av.e < bv.e \/ (av.e = bv.e /\ av.m < bv.m)

\* ------------------------------------------------------------- time
\* time.Time.Sub.
Sub(a, b) == a - b

\* The zero longestTime.
ZeroLongest == [start |-> 0, end |-> 0, duration |-> 0]

newLongestTime(startTime, duration) ==
    [start |-> startTime, end |-> startTime + duration, duration |-> duration]

\* float32(nano) / float32(time.Millisecond).
nanoToMillisecond(nano) ==
    Float32Div(Float32FromInt(nano), Float32FromInt(NanosPerMilli))

\* maxDuration with its comparison turned round (it returns the shorter one).
maxDurationFlipped(x, y) == IF x < y THEN x ELSE y

maxDuration(x, y) == IF x > y THEN x ELSE y

\* ------------------------------------------------------------- int64
\* A time.Duration is an int64.  One is held in two's complement as four
\* limbs of 16 bits, least significant first, so that a product wraps as
\* Go's does.
LimbBase == 65536

\* The int64 of a natural number below 2^31.
Int64(n) == <<n % LimbBase, (n \div LimbBase) % LimbBase, 0, 0>>

\* x + carry, limb by limb, the carry out of the top limb dropped.
RECURSIVE AddCarry(_, _)
AddCarry(x, carry) ==
    IF x = <<>> THEN <<>>
    ELSE <<(x[1] + carry) % LimbBase>> \o AddCarry(Tail(x), (x[1] + carry) \div LimbBase)

\* x * k + carry for 0 <= k < 2^15, the carry out of the top limb dropped.
RECURSIVE MulCarry(_, _, _)
MulCarry(x, k, carry) ==
    IF x = <<>> THEN <<>>
    ELSE <<(x[1] * k + carry) % LimbBase>>
             \o MulCarry(Tail(x), k, (x[1] * k + carry) \div LimbBase)

\* -x.
Neg64(x) == AddCarry([i \in 1..4 |-> LimbBase - 1 - x[i]], 1)

\* x < 0.
IsNeg64(x) == x[4] >= LimbBase \div 2

\* x < y.
Less64(x, y) ==
    IF IsNeg64(x) # IsNeg64(y) THEN IsNeg64(x)
    ELSE \E i \in 1..4 : x[i] < y[i] /\ \A j \in (i + 1)..4 : x[j] = y[j]

\* d * time.Millisecond: 1000000 is 1000 * 1000.
TimesMillisecond(d) == MulCarry(MulCarry(d, 1000, 0), 1000, 0)

\* The whole clock units in a duration between 0 and 2^31 - 1 nanoseconds.
ClockUnits(d) == (d[1] + LimbBase * d[2]) \div NanosPerMilli

\* A value of a float64 seconds flag: sign, whole milliseconds (an int64
\* magnitude) and the thousandths of a millisecond beyond them.
FlagSeconds(neg, millis, micros) == [neg |-> neg, millis |-> millis, micros |-> micros]

\* secondsToDuration: time.Duration(1000 * seconds) drops the fraction of a
\* millisecond, then the count is multiplied by time.Millisecond.
secondsToDuration(seconds) ==
    TimesMillisecond(IF seconds.neg THEN Neg64(seconds.millis) ELSE seconds.millis)

\* ------------------------------------------------------------- addresses
\* netip.ParseAddr.
ParseAddr(s) ==
    IF s \in Addrs \cup ResolvedAddrs THEN [ip |-> s, err |-> FALSE]
    ELSE IF s = OtherSpellingOfX THEN [ip |-> "X", err |-> FALSE]
    ELSE [ip |-> ZeroAddr, err |-> TRUE]

\* netip.Addr.String: an address is held as its canonical spelling.
AddrString(ip) == ip

\* netip.Addr.Is4, Is4In6, Is6 (true of an IPv4-mapped IPv6 address too) and
\* Unmap.
Is4(ip) == ip \in {"192.0.2.1"}

Is4In6(ip) == ip \in {"::ffff:192.0.2.1"}

Is6(ip) == ip \in {"2001:db8::1", "2001:db8::2", "::ffff:192.0.2.1"}

Unmap(ip) == IF Is4In6(ip) THEN "192.0.2.1" ELSE ip

\* ------------------------------------------------------------- printer
printProbeSuccess(p, userInput, streak, rtt) ==
    Append(p, [type |-> "probeSuccess", ip |-> userInput.ip, streak |-> streak, rtt |-> rtt])

printProbeFail(p, userInput, streak) ==
    Append(p, [type |-> "probeFail", ip |-> userInput.ip, streak |-> streak])

printRetryingToResolve(p, hostname) ==
    Append(p, [type |-> "retryingResolve", hostname |-> hostname])

printTotalDownTime(p, downtime) ==
    Append(p, [type |-> "totalDownTime", downtime |-> downtime])

\* printStatistics receives the struct by value.
printStatistics(p, s) ==
    Append(p, [type |-> "statistics", s |-> [s EXCEPT !.printer = <<>>]])

\* n / 2^s to the nearest integer, ties to even, for 0 <= n < 2^31.
RoundShift(n, s) ==
    IF s = 0 THEN n
    ELSE IF s >= 32 THEN 0
    ELSE IF s = 31 THEN (IF n > Pow2(30) THEN 1 ELSE 0)
    ELSE LET q == n \div Pow2(s)
             r == n % Pow2(s)
             half == Pow2(s - 1)
         IN  IF r > half \/ (r = half /\ q % 2 = 1) THEN q + 1 ELSE q

\* fmt's "%.2f" of a float32 below 128: the digits printed, as the number of
\* hundredths they spell. The exact value is rounded, ties to even.
Sprintf2f(x) == IF x.m = 0 THEN 0 ELSE RoundShift(x.m * 100, 0 - x.e)

\* float32(30), the bound of the colour printer's middle band.
Float32Thirty == Float32FromInt(30)

\* colorPrinter.printStatistics, the packet-loss part: the value, the text
\* and the colour it is printed in.
colorPrinterPacketLoss(tc) ==
    LET totalPackets == tc.totalSuccessfulProbes + tc.totalUnsuccessfulProbes
        packetLoss == IF totalPackets = 0
                      THEN Float32Zero
                      ELSE Float32MulInt(
                               Float32Div(Float32FromInt(tc.totalUnsuccessfulProbes),
                                          Float32FromInt(totalPackets)), 100)
    IN  [sink |-> "color", loss |-> packetLoss, text |-> Sprintf2f(packetLoss),
         colour |-> IF packetLoss = Float32Zero THEN "green"
                    ELSE IF ~Float32Less(Float32Thirty, packetLoss) THEN "lightYellow"
                    ELSE "red"]

\* plainPrinter.printStatistics, the packet-loss part.
plainPrinterPacketLoss(tc) ==
    LET totalPackets == tc.totalSuccessfulProbes + tc.totalUnsuccessfulProbes
        packetLoss == IF totalPackets = 0
                      THEN Float32Zero
                      ELSE Float32MulInt(
                               Float32Div(Float32FromInt(tc.totalUnsuccessfulProbes),
                                          Float32FromInt(totalPackets)), 100)
    IN  [sink |-> "plain", loss |-> packetLoss, text |-> Sprintf2f(packetLoss)]

\* jsonPrinter.printStatistics, the packet-loss part: TotalPacketLoss is the
\* text.
jsonPrinterPacketLoss(tc) ==
    LET TotalUnsuccessfulProbes == tc.totalUnsuccessfulProbes
        TotalPackets == tc.totalSuccessfulProbes + tc.totalUnsuccessfulProbes
        loss == IF TotalPackets = 0
                THEN Float32Zero
                ELSE Float32MulInt(Float32Div(Float32FromInt(TotalUnsuccessfulProbes),
                                              Float32FromInt(TotalPackets)), 100)
    IN  [sink |-> "json", loss |-> loss, text |-> Sprintf2f(loss)]

\* ------------------------------------------------------------- statistics
\* The loop's sum, sample after sample in float32.
RECURSIVE SumSeq(_, _)
SumSeq(s, sum) ==
    IF s = <<>> THEN sum
    ELSE CHOOSE x \in {SumSeq(rest, next) :
                         rest \in {Tail(s)}, next \in {Float32Add(sum, s[1])}} : TRUE

RECURSIVE ScanMax(_, _)
ScanMax(s, m) ==
    IF s = <<>> THEN m
    ELSE CHOOSE x \in {ScanMax(rest, next) :
                         rest \in {Tail(s)},
                         next \in {IF Float32Less(m, s[1]) THEN s[1] ELSE m}} : TRUE

RECURSIVE ScanMin(_, _)
ScanMin(s, m) ==
    IF s = <<>> THEN m
    ELSE CHOOSE x \in {ScanMin(rest, next) :
                         rest \in {Tail(s)},
                         next \in {IF Float32Less(s[1], m) THEN s[1] ELSE m}} : TRUE

calcMinAvgMaxRttTime(timeArr) ==
    IF Len(timeArr) > 0
    THEN [min |-> ScanMin(timeArr, timeArr[1]),
          max |-> ScanMax(timeArr, Float32Zero),
          average |-> Float32Div(SumSeq(timeArr, Float32Zero),
                                 Float32FromInt(Len(timeArr))),
          hasResults |-> TRUE]
    ELSE [min |-> Float32Zero, max |-> Float32Zero, average |-> Float32Zero,
          hasResults |-> FALSE]

\* calcLongestUptime without its comparison: the closing interval always
\* replaces the record.
calcLongestUptimeAlwaysReplaces(tc, duration) ==
    IF tc.startOfUptime = 0 \/ duration = 0 THEN tc
    ELSE [tc EXCEPT !.longestUptime = newLongestTime(tc.startOfUptime, duration)]

\* calcLongestUptime with a strict comparison: on a tie the earlier interval
\* is kept.
calcLongestUptimeStrict(tc, duration) ==
    IF tc.startOfUptime = 0 \/ duration = 0 THEN tc
    ELSE LET longestUptime == newLongestTime(tc.startOfUptime, duration) IN
         IF tc.longestUptime.end = 0
         THEN [tc EXCEPT !.longestUptime = longestUptime]
         ELSE IF longestUptime.duration > tc.longestUptime.duration
              THEN [tc EXCEPT !.longestUptime = longestUptime]
              ELSE tc

calcLongestUptime(tc, duration) ==
    IF tc.startOfUptime = 0 \/ duration = 0 THEN tc
    ELSE LET longestUptime == newLongestTime(tc.startOfUptime, duration) IN
         IF tc.longestUptime.end = 0
         THEN [tc EXCEPT !.longestUptime = longestUptime]
         ELSE IF longestUptime.duration >= tc.longestUptime.duration
              THEN [tc EXCEPT !.longestUptime = longestUptime]
              ELSE tc

calcLongestDowntime(tc, duration) ==
    IF tc.startOfDowntime = 0 \/ duration = 0 THEN tc
    ELSE LET longestDowntime == newLongestTime(tc.startOfDowntime, duration) IN
         IF tc.longestDowntime.end = 0
         THEN [tc EXCEPT !.longestDowntime = longestDowntime]
         ELSE IF longestDowntime.duration >= tc.longestDowntime.duration
              THEN [tc EXCEPT !.longestDowntime = longestDowntime]
              ELSE tc

\* printStats with the two branches exchanged.
printStatsSwapped(tc, at) ==
    LET t1 == IF tc.destWasDown
              THEN calcLongestUptime(tc, Sub(at, tc.startOfUptime))
              ELSE calcLongestDowntime(tc, Sub(at, tc.startOfDowntime))
    IN  CHOOSE x \in {[t2 EXCEPT !.printer = printStatistics(@, t2)] :
                        t2 \in {[t1 EXCEPT !.rttResults = calcMinAvgMaxRttTime(t1.rtt)]}} : TRUE

\* printStats that closes the open interval it has folded: the interval's
\* start marker is moved to the time of the snapshot.
printStatsClosesInterval(tc, at) ==
    LET t1 == IF tc.destWasDown
              THEN [calcLongestDowntime(tc, Sub(at, tc.startOfDowntime))
                        EXCEPT !.startOfDowntime = at]
              ELSE [calcLongestUptime(tc, Sub(at, tc.startOfUptime))
                        EXCEPT !.startOfUptime = at]
    IN  CHOOSE x \in {[t2 EXCEPT !.printer = printStatistics(@, t2)] :
                        t2 \in {[t1 EXCEPT !.rttResults = calcMinAvgMaxRttTime(t1.rtt)]}} : TRUE

\* printStats at clock value at; time.Since(x) is at - x.
\* The struct with its RTT summary, t2, is worked out once.
printStats(tc, at) ==
    LET t1 == IF tc.destWasDown
              THEN calcLongestDowntime(tc, Sub(at, tc.startOfDowntime))
              ELSE calcLongestUptime(tc, Sub(at, tc.startOfUptime))
    IN  CHOOSE x \in {[t2 EXCEPT !.printer = printStatistics(@, t2)] :
                        t2 \in {[t1 EXCEPT !.rttResults = calcMinAvgMaxRttTime(t1.rtt)]}} : TRUE

\* ------------------------------------------------------------- tracker
\* closeUptime without the line that clears startOfUptime.
closeUptimeKeepsMarker(tc, connTime) ==
    LET a == [tc EXCEPT !.startOfDowntime = connTime]
        b == calcLongestUptime(a, Sub(a.startOfDowntime, a.startOfUptime))
    IN  [b EXCEPT !.destWasDown = TRUE]

\* handleConnError, the branch taken when the destination was up: the
\* downtime opens at connTime and the uptime is closed.
closeUptime(tc, connTime) ==
    LET a == [tc EXCEPT !.startOfDowntime = connTime]
        b == calcLongestUptime(a, Sub(a.startOfDowntime, a.startOfUptime))
    IN  [b EXCEPT !.startOfUptime = 0, !.destWasDown = TRUE]

handleConnError(tc, connTime, elapsed) ==
    LET t1 == IF ~tc.destWasDown THEN closeUptime(tc, connTime) ELSE tc
        t2 == [t1 EXCEPT !.totalDowntime = @ + elapsed,
                         !.lastUnsuccessfulProbe = connTime,
                         !.totalUnsuccessfulProbes = @ + 1,
                         !.ongoingUnsuccessfulProbes = @ + 1]
    IN  [t2 EXCEPT !.printer =
            printProbeFail(@, t2.userInput, t2.ongoingUnsuccessfulProbes)]

\* closeDowntime without the line that resets ongoingSuccessfulProbes.
closeDowntimeKeepsStreak(tc, connTime) ==
    LET a == [tc EXCEPT !.startOfUptime = connTime]
        downtime == Sub(a.startOfUptime, a.startOfDowntime)
        b == calcLongestDowntime(a, downtime)
    IN  [b EXCEPT !.printer = printTotalDownTime(@, downtime),
                  !.startOfDowntime = 0,
                  !.destWasDown = FALSE,
                  !.ongoingUnsuccessfulProbes = 0]

\* closeDowntime measuring the downtime from the latest failed probe instead
\* of from startOfDowntime.
closeDowntimeFromLastFailure(tc, connTime) ==
    LET a == [tc EXCEPT !.startOfUptime = connTime]
        downtime == Sub(a.startOfUptime, a.lastUnsuccessfulProbe)
        b == calcLongestDowntime(a, downtime)
    IN  [b EXCEPT !.printer = printTotalDownTime(@, downtime),
                  !.startOfDowntime = 0,
                  !.destWasDown = FALSE,
                  !.ongoingUnsuccessfulProbes = 0,
                  !.ongoingSuccessfulProbes = 0]

\* handleConnSuccess, the branch taken when the destination was down: the
\* uptime opens at connTime, the downtime is closed and reported.
closeDowntime(tc, connTime) ==
    LET a == [tc EXCEPT !.startOfUptime = connTime]
        downtime == Sub(a.startOfUptime, a.startOfDowntime)
        b == calcLongestDowntime(a, downtime)
    IN  [b EXCEPT !.printer = printTotalDownTime(@, downtime),
                  !.startOfDowntime = 0,
                  !.destWasDown = FALSE,
                  !.ongoingUnsuccessfulProbes = 0,
                  !.ongoingSuccessfulProbes = 0]

\* handleConnSuccess keeping the recovery silent as well when only failures
\* are shown.
handleConnSuccessQuietRecovery(tc, rtt, connTime, elapsed) ==
    LET t1 == IF tc.destWasDown
              THEN [closeDowntime(tc, connTime) EXCEPT !.printer =
                        IF tc.userInput.showFailuresOnly THEN tc.printer ELSE @]
              ELSE tc
        t2 == IF t1.startOfUptime = 0
              THEN [t1 EXCEPT !.startOfUptime = connTime]
              ELSE t1
        t3 == [t2 EXCEPT !.totalUptime = @ + elapsed,
                         !.lastSuccessfulProbe = connTime,
                         !.totalSuccessfulProbes = @ + 1,
                         !.ongoingSuccessfulProbes = @ + 1,
                         !.rtt = Append(@, rtt)]
    IN  IF ~t3.userInput.showFailuresOnly
        THEN [t3 EXCEPT !.printer =
                printProbeSuccess(@, t3.userInput, t3.ongoingSuccessfulProbes, rtt)]
        ELSE t3

\* handleConnSuccess storing the RTT sample only when the probe is shown.
handleConnSuccessRttWhenShown(tc, rtt, connTime, elapsed) ==
    LET t1 == IF tc.destWasDown THEN closeDowntime(tc, connTime) ELSE tc
        t2 == IF t1.startOfUptime = 0
              THEN [t1 EXCEPT !.startOfUptime = connTime]
              ELSE t1
        t3 == [t2 EXCEPT !.totalUptime = @ + elapsed,
                         !.lastSuccessfulProbe = connTime,
                         !.totalSuccessfulProbes = @ + 1,
                         !.ongoingSuccessfulProbes = @ + 1]
    IN  IF ~t3.userInput.showFailuresOnly
        THEN [t3 EXCEPT !.rtt = Append(@, rtt),
                        !.printer =
                printProbeSuccess(@, t3.userInput, t3.ongoingSuccessfulProbes, rtt)]
        ELSE t3

handleConnSuccess(tc, rtt, connTime, elapsed) ==
    LET t1 == IF tc.destWasDown THEN closeDowntime(tc, connTime) ELSE tc
        t2 == IF t1.startOfUptime = 0
              THEN [t1 EXCEPT !.startOfUptime = connTime]
              ELSE t1
        t3 == [t2 EXCEPT !.totalUptime = @ + elapsed,
                         !.lastSuccessfulProbe = connTime,
                         !.totalSuccessfulProbes = @ + 1,
                         !.ongoingSuccessfulProbes = @ + 1,
                         !.rtt = Append(@, rtt)]
    IN  IF ~t3.userInput.showFailuresOnly
        THEN [t3 EXCEPT !.printer =
                printProbeSuccess(@, t3.userInput, t3.ongoingSuccessfulProbes, rtt)]
        ELSE t3

\* resolveHostname without the "has been running for a while" exception: a
\* failed lookup is always fatal.
resolveHostnameFailureAlwaysFatal(tc, lookup) ==
    IF ~ParseAddr(tc.userInput.hostname).err
    THEN [ip |-> ParseAddr(tc.userInput.hostname).ip, fatal |-> FALSE, looked |-> "none"]
    ELSE IF lookup = "lookupError"
         THEN [ip |-> tc.userInput.ip, fatal |-> TRUE, looked |-> lookup]
         ELSE [ip |-> lookup, fatal |-> FALSE, looked |-> lookup]

\* ------------------------------------------------------------- statements
\* The i-th of handleConnError's 9 statements, made on the struct s; up says
\* that the branch for a destination that was up is taken.
handleConnErrorStatement(s, i, up, connTime, elapsed) ==
    CASE i = 1 /\ up -> [s EXCEPT !.startOfDowntime = connTime]
      [] i = 2 /\ up -> calcLongestUptime(s, Sub(s.startOfDowntime, s.startOfUptime))
      [] i = 3 /\ up -> [s EXCEPT !.startOfUptime = 0]
      [] i = 4 /\ up -> [s EXCEPT !.destWasDown = TRUE]
      [] i = 5 -> [s EXCEPT !.totalDowntime = @ + elapsed]
      [] i = 6 -> [s EXCEPT !.lastUnsuccessfulProbe = connTime]
      [] i = 7 -> [s EXCEPT !.totalUnsuccessfulProbes = @ + 1]
      [] i = 8 -> [s EXCEPT !.ongoingUnsuccessfulProbes = @ + 1]
      [] i = 9 -> [s EXCEPT !.printer =
                      printProbeFail(@, s.userInput, s.ongoingUnsuccessfulProbes)]
      [] OTHER -> s

\* handleConnError after its first k statements.
RECURSIVE handleConnErrorUpTo(_, _, _, _)
handleConnErrorUpTo(tc, connTime, elapsed, k) ==
    IF k = 0 THEN tc
    ELSE CHOOSE x \in {handleConnErrorStatement(s, k, ~tc.destWasDown, connTime, elapsed) :
                         s \in {handleConnErrorUpTo(tc, connTime, elapsed, k - 1)}} : TRUE

\* The i-th of handleConnSuccess's 14 statements, made on the struct s; down
\* says that the branch for a destination that was down is taken. The
\* downtime is the difference of the two markers there.
handleConnSuccessStatement(s, i, down, rtt, connTime, elapsed) ==
    CASE i = 1 /\ down -> [s EXCEPT !.startOfUptime = connTime]
      [] i = 2 /\ down -> calcLongestDowntime(s, Sub(s.startOfUptime, s.startOfDowntime))
      [] i = 3 /\ down -> [s EXCEPT !.printer =
                              printTotalDownTime(@, Sub(s.startOfUptime, s.startOfDowntime))]
      [] i = 4 /\ down -> [s EXCEPT !.startOfDowntime = 0]
      [] i = 5 /\ down -> [s EXCEPT !.destWasDown = FALSE]
      [] i = 6 /\ down -> [s EXCEPT !.ongoingUnsuccessfulProbes = 0]
      [] i = 7 /\ down -> [s EXCEPT !.ongoingSuccessfulProbes = 0]
      [] i = 8 /\ s.startOfUptime = 0 -> [s EXCEPT !.startOfUptime = connTime]
      [] i = 9 -> [s EXCEPT !.totalUptime = @ + elapsed]
      [] i = 10 -> [s EXCEPT !.lastSuccessfulProbe = connTime]
      [] i = 11 -> [s EXCEPT !.totalSuccessfulProbes = @ + 1]
      [] i = 12 -> [s EXCEPT !.ongoingSuccessfulProbes = @ + 1]
      [] i = 13 -> [s EXCEPT !.rtt = Append(@, rtt)]
      [] i = 14 /\ ~s.userInput.showFailuresOnly ->
             [s EXCEPT !.printer =
                 printProbeSuccess(@, s.userInput, s.ongoingSuccessfulProbes, rtt)]
      [] OTHER -> s

\* handleConnSuccess after its first k statements.
RECURSIVE handleConnSuccessUpTo(_, _, _, _, _)
handleConnSuccessUpTo(tc, rtt, connTime, elapsed, k) ==
    IF k = 0 THEN tc
    ELSE CHOOSE x \in {handleConnSuccessStatement(s, k, tc.destWasDown, rtt, connTime,
                                                  elapsed) :
                         s \in {handleConnSuccessUpTo(tc, rtt, connTime, elapsed, k - 1)}} :
            TRUE

\* resolveHostname for which a failed lookup is never fatal: the address held
\* so far is returned, also before the first probe.
resolveHostnameFailureNeverFatal(tc, lookup) ==
    IF ~ParseAddr(tc.userInput.hostname).err
    THEN [ip |-> ParseAddr(tc.userInput.hostname).ip, fatal |-> FALSE, looked |-> "none"]
    ELSE IF lookup = "lookupError"
         THEN [ip |-> tc.userInput.ip, fatal |-> FALSE, looked |-> lookup]
         ELSE [ip |-> lookup, fatal |-> FALSE, looked |-> lookup]

\* ------------------------------------------------------------- resolver
\* resolveHostname: a literal address is returned as parsed and no lookup is
\* made (looked is "none"); a failed lookup yields the known address once a
\* probe has been recorded and is fatal before that.
resolveHostname(tc, lookup) ==
    IF ~ParseAddr(tc.userInput.hostname).err
    THEN [ip |-> ParseAddr(tc.userInput.hostname).ip, fatal |-> FALSE, looked |-> "none"]
    ELSE IF lookup = "lookupError"
              /\ (tc.totalSuccessfulProbes # 0 \/ tc.totalUnsuccessfulProbes # 0)
         THEN [ip |-> tc.userInput.ip, fatal |-> FALSE, looked |-> lookup]
         ELSE IF lookup = "lookupError"
              THEN [ip |-> tc.userInput.ip, fatal |-> TRUE, looked |-> lookup]
              ELSE [ip |-> lookup, fatal |-> FALSE, looked |-> lookup]

\* retryResolveHostname that starts the downtime anew at the re-resolution.
retryResolveHostnameRestartsDowntime(tc, lookup, at) ==
    IF tc.ongoingUnsuccessfulProbes >= tc.userInput.retryHostnameLookupAfter
    THEN LET t1 == [tc EXCEPT !.printer = printRetryingToResolve(@, tc.userInput.hostname)]
             t2 == [t1 EXCEPT !.userInput.ip = resolveHostname(t1, lookup).ip,
                              !.ongoingUnsuccessfulProbes = 0,
                              !.retriedHostnameLookups = @ + 1,
                              !.startOfDowntime = at]
         IN  IF Len(t2.hostnameChanges) = 0 THEN t2
             ELSE IF t2.hostnameChanges[Len(t2.hostnameChanges)].Addr # t2.userInput.ip
                  THEN [t2 EXCEPT !.hostnameChanges =
                           Append(@, [Addr |-> t2.userInput.ip, When |-> at])]
                  ELSE t2
    ELSE tc

\* retryResolveHostname that records every re-resolution, whether or not the
\* address differs from the last recorded one.
retryResolveHostnameAlwaysRecords(tc, lookup, at) ==
    IF tc.ongoingUnsuccessfulProbes >= tc.userInput.retryHostnameLookupAfter
    THEN LET t1 == [tc EXCEPT !.printer = printRetryingToResolve(@, tc.userInput.hostname)]
             t2 == [t1 EXCEPT !.userInput.ip = resolveHostname(t1, lookup).ip,
                              !.ongoingUnsuccessfulProbes = 0,
                              !.retriedHostnameLookups = @ + 1]
         IN  [t2 EXCEPT !.hostnameChanges =
                            Append(@, [Addr |-> t2.userInput.ip, When |-> at])]
    ELSE tc

\* retryResolveHostname; the lookup has returned at clock value at.
retryResolveHostname(tc, lookup, at) ==
    IF tc.ongoingUnsuccessfulProbes >= tc.userInput.retryHostnameLookupAfter
    THEN LET t1 == [tc EXCEPT !.printer = printRetryingToResolve(@, tc.userInput.hostname)]
             t2 == [t1 EXCEPT !.userInput.ip = resolveHostname(t1, lookup).ip,
                              !.ongoingUnsuccessfulProbes = 0,
                              !.retriedHostnameLookups = @ + 1]
         IN  IF Len(t2.hostnameChanges) = 0 THEN t2
             ELSE IF t2.hostnameChanges[Len(t2.hostnameChanges)].Addr # t2.userInput.ip
                  THEN [t2 EXCEPT !.hostnameChanges =
                           Append(@, [Addr |-> t2.userInput.ip, When |-> at])]
                  ELSE t2
    ELSE tc

\* The sink behind the printer is released: db.conn.Close, cp.cleanup.
releaseSink(tc) ==
    [tc EXCEPT !.sink.open = FALSE,
               !.printer = Append(@, [type |-> "sinkReleased", kind |-> tc.sink.kind])]

\* shutdown that releases the sink before the statistics go out.
shutdownReleasesFirst(tc, at) ==
    LET t1 == [tc EXCEPT !.endTime = at]
        t2 == IF t1.sink.kind = "database" THEN releaseSink(t1) ELSE t1
        t3 == IF t2.sink.kind = "csv" THEN releaseSink(t2) ELSE t2
    IN  printStats(t3, at)

\* shutdown up to os.Exit: the end time is stamped, the statistics go out,
\* then a database or CSV sink is released.
shutdown(tc, at) ==
    CHOOSE x \in {IF t2.sink.kind = "csv" THEN releaseSink(t2) ELSE t2 :
                    t2 \in {IF t1.sink.kind = "database" THEN releaseSink(t1) ELSE t1 :
                              t1 \in {printStats([tc EXCEPT !.endTime = at], at)}}} : TRUE

\* ------------------------------------------------------------- start-up
printStart(p, hostname, port) ==
    Append(p, [type |-> "start", hostname |-> hostname, port |-> port])

printError(p, msg) == Append(p, [type |-> "error", msg |-> msg])

\* ------------------------------------------------------------- selection
\* rand.Intn(n) for the random number rnd.
Intn(n, rnd) == rnd % n

\* selectResolvedIP, the IPv4 branch's ipList.
RECURSIVE IPv4List(_)
IPv4List(ipAddrs) ==
    IF ipAddrs = <<>> THEN <<>>
    ELSE (IF Is4(ipAddrs[1]) THEN <<ipAddrs[1]>> ELSE <<>>)
         \o (IF Is4In6(ipAddrs[1]) THEN <<Unmap(ipAddrs[1])>> ELSE <<>>)
         \o IPv4List(Tail(ipAddrs))

\* selectResolvedIP, the IPv6 branch's ipList.
IPv6List(ipAddrs) == SelectSeq(ipAddrs, Is6)

\* selectResolvedIP, the end of each branch: an index is drawn when there is
\* more than one address, and the address is unmapped, printed and parsed.
PickAddr(ipList, rnd) ==
    LET index == IF Len(ipList) > 1 THEN Intn(Len(ipList), rnd) ELSE 0
    IN  ParseAddr(AddrString(Unmap(ipList[index + 1]))).ip

\* selectResolvedIP for the addresses a lookup returned and the random number
\* rnd: the address chosen, or the process exits with status 1.
selectResolvedIP(tc, ipAddrs, rnd) ==
    IF tc.userInput.useIPv4
    THEN IF Len(IPv4List(ipAddrs)) = 0
         THEN [ip |-> ZeroAddr, exit |-> TRUE,
               tc |-> [tc EXCEPT !.printer = printError(@, "no IPv4 address found")]]
         ELSE [ip |-> PickAddr(IPv4List(ipAddrs), rnd), exit |-> FALSE, tc |-> tc]
    ELSE IF tc.userInput.useIPv6
    THEN IF Len(IPv6List(ipAddrs)) = 0
         THEN [ip |-> ZeroAddr, exit |-> TRUE,
               tc |-> [tc EXCEPT !.printer = printError(@, "no IPv6 address found")]]
         ELSE [ip |-> PickAddr(IPv6List(ipAddrs), rnd), exit |-> FALSE, tc |-> tc]
    ELSE [ip |-> PickAddr(ipAddrs, rnd), exit |-> FALSE, tc |-> tc]

\* What a step of processUserInput hands on: the struct, and whether the
\* process has exited with status 1.
Goes(tc) == [tc |-> tc, exit |-> FALSE]
Exits(tc) == [tc |-> tc, exit |-> TRUE]

\* main's &tcping{}: every field has its zero value.
ZeroTcping ==
    [startTime |-> 0, endTime |-> 0,
     startOfUptime |-> 0, startOfDowntime |-> 0,
     lastSuccessfulProbe |-> 0, lastUnsuccessfulProbe |-> 0,
     longestUptime |-> ZeroLongest, longestDowntime |-> ZeroLongest,
     rtt |-> <<>>,
     hostnameChanges |-> <<>>,
     userInput |-> [ip |-> ZeroAddr, hostname |-> "", port |-> 0,
                    useIPv4 |-> FALSE, useIPv6 |-> FALSE,
                    retryHostnameLookupAfter |-> 0,
                    probesBeforeQuit |-> 0,
                    timeout |-> Int64(0),
                    intervalBetweenProbes |-> 0,
                    shouldRetryResolve |-> FALSE,
                    showFailuresOnly |-> FALSE,
                    networkInterface |-> [use |-> FALSE, remoteAddr |-> ZeroAddr]],
     ongoingSuccessfulProbes |-> 0, ongoingUnsuccessfulProbes |-> 0,
     totalDowntime |-> 0, totalUptime |-> 0,
     totalSuccessfulProbes |-> 0, totalUnsuccessfulProbes |-> 0,
     retriedHostnameLookups |-> 0,
     rttResults |-> [min |-> Float32Zero, max |-> Float32Zero, average |-> Float32Zero,
                     hasResults |-> FALSE],
     destWasDown |-> FALSE, destIsIP |-> FALSE,
     sink |-> [kind |-> "none", open |-> FALSE],
     printer |-> <<>>]

\* setPrinter: a database, else a CSV file, else the terminal.
setPrinter(tc, outputDB, saveToCSV) ==
    [tc EXCEPT !.sink = [kind |-> IF outputDB # "" THEN "database"
                                  ELSE IF saveToCSV # "" THEN "csv"
                                  ELSE "terminal",
                         open |-> TRUE]]

\* setIPFlags.
setIPFlags(tc, ip4, ip6) ==
    IF ip4 /\ ip6
    THEN Exits([tc EXCEPT !.printer = printError(@, "one IP version only")])
    ELSE Goes([tc EXCEPT !.userInput.useIPv4 = ip4, !.userInput.useIPv6 = ip6])

\* strconv.ParseUint(s, 10, 16): s is a run of decimal digits (numeric, with
\* its value) or it is not.
ParseUint16(s) ==
    IF s.numeric /\ s.value < LimbBase
    THEN [value |-> s.value, err |-> FALSE]
    ELSE [value |-> 0, err |-> TRUE]

\* setPort.
setPort(tc, arg) ==
    IF ParseUint16(arg).err
    THEN Exits([tc EXCEPT !.printer = printError(@, "invalid port")])
    ELSE IF ParseUint16(arg).value < 1 \/ ParseUint16(arg).value > 65535
         THEN Exits([tc EXCEPT !.printer = printError(@, "port out of range")])
         ELSE Goes([tc EXCEPT !.userInput.port = ParseUint16(arg).value])

\* newNetworkInterface: the dialer's remote address is built from the
\* address the target has at this moment.
newNetworkInterface(tc, intName) ==
    [use |-> TRUE, remoteAddr |-> AddrString(tc.userInput.ip)]

\* setGenericArgs; the first lookup has yielded `lookup` and the clock reads at.
setGenericArgs(tc, a, lookup, at) ==
    LET t1 == [tc EXCEPT !.userInput.retryHostnameLookupAfter = a.retryResolve,
                         !.userInput.hostname = a.hostname]
        r  == resolveHostname(t1, lookup)
        t2 == [t1 EXCEPT !.userInput.ip = r.ip,
                         !.startTime = at,
                         !.userInput.probesBeforeQuit = a.probesBeforeQuit,
                         !.userInput.timeout = secondsToDuration(a.timeout)]
        d  == secondsToDuration(a.secondsBetweenProbes)
        destIsIP == t2.userInput.hostname = AddrString(t2.userInput.ip)
        t3 == [t2 EXCEPT !.userInput.intervalBetweenProbes = ClockUnits(d),
                         !.hostnameChanges = <<[Addr |-> t2.userInput.ip, When |-> at]>>,
                         !.destIsIP = destIsIP,
                         !.userInput.shouldRetryResolve =
                             (t2.userInput.retryHostnameLookupAfter > 0 /\ ~destIsIP)]
        t4 == IF a.intName # ""
              THEN [t3 EXCEPT !.userInput.networkInterface =
                                  newNetworkInterface(t3, a.intName)]
              ELSE t3
    IN  IF r.fatal
        THEN Exits([t1 EXCEPT !.printer = printError(@, "cannot resolve")])
        ELSE IF Less64(d, TimesMillisecond(Int64(2)))
             THEN Exits([t2 EXCEPT !.printer = printError(@, "interval too short")])
             ELSE Goes([t4 EXCEPT !.userInput.showFailuresOnly = a.showFailuresOnly])

\* processUserInput for the command line a.
processUserInput(tc, a, lookup, at) ==
    LET p0 == setPrinter(tc, a.outputDB, a.saveToCSV)
        p1 == setIPFlags(p0, a.ip4, a.ip6)
        p2 == setPort(p1.tc, a.port)
    IN  IF p1.exit THEN p1
        ELSE IF p2.exit THEN p2
        ELSE setGenericArgs(p2.tc, a, lookup, at)

\* ------------------------------------------------------------- command lines
\* Values of the port argument: decimal numbers and a word.
Port(n) == [numeric |-> TRUE, value |-> n]
PortArgs == {Port(0), Port(80), Port(65535), Port(65536), [numeric |-> FALSE, value |-> 0]}

\* Values of the -i flag, in seconds: the interval itself, the interval and
\* half a millisecond, just under two milliseconds, and the negative value
\* whose millisecond count times time.Millisecond wraps round to the interval
\* and 551616 ns (2^64 = 18446744073709 * 10^6 + 551616; the count is
\* 18446744073709 - Interval).
IntervalArgs ==
    {FlagSeconds(FALSE, Int64(Interval), 0),
     FlagSeconds(FALSE, Int64(Interval), 500),
     FlagSeconds(FALSE, Int64(1), 999),
     FlagSeconds(TRUE, <<46573 - Interval, 63392, 4294, 0>>, 500)}

\* tcping host.example 80 -i <Interval ms>; -t has its default, one second.
BaseLine ==
    [hostname |-> HostName, port |-> Port(80), ip4 |-> FALSE, ip6 |-> FALSE,
     retryResolve |-> 0, probesBeforeQuit |-> 0,
     secondsBetweenProbes |-> FlagSeconds(FALSE, Int64(Interval), 0),
     timeout |-> FlagSeconds(FALSE, Int64(1000), 0),
     intName |-> "", showFailuresOnly |-> FALSE, outputDB |-> "", saveToCSV |-> ""]

\* The command lines of the model: the options that steer the loop in every
\* combination, and each other option varied on its own.
CommandLines ==
    {[BaseLine EXCEPT !.hostname = h, !.retryResolve = r, !.probesBeforeQuit = c,
                      !.showFailuresOnly = f] :
        h \in Hostnames, r \in RetryAfters, c \in ProbeLimits, f \in BOOLEAN}
    \cup {[BaseLine EXCEPT !.intName = n, !.retryResolve = r] :
            n \in IntNames, r \in RetryAfters}
    \cup {[BaseLine EXCEPT !.port = p] : p \in PortArgs}
    \cup {[BaseLine EXCEPT !.ip4 = v4, !.ip6 = v6] : v4 \in BOOLEAN, v6 \in BOOLEAN}
    \cup {[BaseLine EXCEPT !.secondsBetweenProbes = s] : s \in IntervalArgs}
    \cup {[BaseLine EXCEPT !.outputDB = db, !.saveToCSV = csv, !.probesBeforeQuit = c] :
            db \in {"", "out.db"}, csv \in {"", "out.csv"}, c \in ProbeLimits}

\* main before processUserInput, started with one of the command lines.
InitFrom(lines) ==
    /\ args \in lines
    /\ t = ZeroTcping
    /\ prev = ZeroTcping
    /\ now = 1
    /\ pc = "startup"
    /\ tickAt = 0
    /\ tickReady = FALSE
    /\ stdinPending = FALSE
    /\ connStart = 0
    /\ probeCount = 0
    /\ exitCode = -1
    /\ hist = <<>>
    /\ last = "init"
    /\ by = "main"
    /\ lookedUp = "none"
    /\ sigPending = FALSE
    /\ typed = <<>>
    /\ linesRead = 0

Init == InitFrom(CommandLines)

\* ------------------------------------------------------------- the clock
\* The clock moves to `to`: a tick that came due is left in ticker.C (which
\* holds one tick; further ticks are dropped) and the ticker is re-armed.
AdvanceClock(to) ==
    /\ now' = to
    /\ tickReady' = (tickReady \/ tickAt <= to)
    /\ tickAt' = IF tickAt <= to
                 THEN tickAt + Interval * (((to - tickAt) \div Interval) + 1)
                 ELSE tickAt

\* The struct as a step of the loop finds it: its output starts empty.
Fresh(tc) == [tc EXCEPT !.printer = <<>>]

Running == exitCode = -1

\* ------------------------------------------------------------- main
\* main up to the loop: processUserInput ends the process with status 1 or
\* fills the struct; then the ticker is created and the start line printed.
\* A lookup is made only for a target that is no literal address.
ProcessUserInput ==
    /\ Running /\ pc = "startup"
    /\ UNCHANGED watch
    /\ \E lookup \in FirstLookups :
          LET p == processUserInput(Fresh(t), args, lookup, now)
          IN  /\ lookedUp' = IF setIPFlags(t, args.ip4, args.ip6).exit
                                \/ setPort(t, args.port).exit
                                \/ ~ParseAddr(args.hostname).err
                             THEN "none" ELSE lookup
              /\ IF p.exit
                 THEN /\ t' = p.tc
                      /\ exitCode' = 1
                      /\ pc' = "exited"
                      /\ tickAt' = tickAt
                 ELSE /\ t' = [p.tc EXCEPT !.printer =
                                   printStart(@, p.tc.userInput.hostname, p.tc.userInput.port)]
                      /\ exitCode' = exitCode
                      /\ pc' = "retry"
                      /\ tickAt' = now + Interval
    /\ prev' = t /\ last' = "startup" /\ by' = "main"
    /\ UNCHANGED <<args, now, tickReady, stdinPending, connStart, probeCount, hist>>

\* main: shouldRetryResolve is off, retryResolveHostname is not called.
RetrySkip ==
    /\ Running /\ pc = "retry"
    /\ UNCHANGED watch
    /\ ~t.userInput.shouldRetryResolve
    /\ t' = Fresh(t) /\ prev' = t /\ last' = "retrySkip" /\ by' = "main"
    /\ pc' = "dial"
    /\ UNCHANGED <<args, now, tickAt, tickReady, stdinPending, connStart, probeCount,
                   exitCode, hist, lookedUp>>

\* main: retryResolveHostname; a lookup that is made takes r clock units.
RetryResolve ==
    /\ Running /\ pc = "retry"
    /\ UNCHANGED watch
    /\ t.userInput.shouldRetryResolve
    /\ \E lookup \in LookupResults, r \in ResolveDurs :
          LET due == t.ongoingUnsuccessfulProbes >= t.userInput.retryHostnameLookupAfter
              looked == IF due THEN resolveHostname(t, lookup).looked ELSE "none"
              at  == IF looked # "none" THEN now + r ELSE now
              fatal == due /\ resolveHostname(t, lookup).fatal
          IN  /\ AdvanceClock(at)
              /\ lookedUp' = looked
              /\ IF fatal
                 THEN /\ t' = [Fresh(t) EXCEPT !.printer = printError(@, "cannot resolve")]
                      /\ exitCode' = 1
                      /\ pc' = "exited"
                 ELSE /\ t' = retryResolveHostname(Fresh(t), lookup, at)
                      /\ exitCode' = exitCode
                      /\ pc' = "dial"
    /\ prev' = t /\ last' = "retryResolve" /\ by' = "main"
    /\ UNCHANGED <<args, stdinPending, connStart, probeCount, hist>>

\* tcpProbe: connStart is taken and the dial begins; the model starts at most
\* n probes.
TcpProbeDialUpTo(n) ==
    /\ Running /\ pc = "dial"
    /\ UNCHANGED watch
    /\ Len(hist) < n
    /\ connStart' = now
    /\ pc' = "dialing"
    /\ t' = Fresh(t) /\ prev' = t /\ last' = "dial" /\ by' = "main"
    /\ UNCHANGED <<args, now, tickAt, tickReady, stdinPending, probeCount, exitCode,
                   hist, lookedUp>>

TcpProbeDial == TcpProbeDialUpTo(MaxProbes)

\* tcpProbe: the address the dial goes to.
DialTarget(tc) ==
    IF tc.userInput.networkInterface.use
    THEN tc.userInput.networkInterface.remoteAddr
    ELSE AddrString(tc.userInput.ip)

\* tcpProbe: the dial fails after connDuration and handleConnError records it.
TcpProbeError ==
    /\ Running /\ pc = "dialing"
    /\ UNCHANGED watch
    /\ \E connDuration \in ConnDurs :
          LET elapsed == maxDuration(connDuration, t.userInput.intervalBetweenProbes)
          IN  /\ AdvanceClock(now + connDuration)
              /\ t' = handleConnError(Fresh(t), connStart, elapsed)
              /\ hist' = Append(hist, [ok |-> FALSE, start |-> connStart,
                                       dur |-> connDuration, target |-> DialTarget(t)])
    /\ pc' = "tick"
    /\ prev' = t /\ last' = "probeError" /\ by' = "main"
    /\ UNCHANGED <<args, stdinPending, connStart, probeCount, exitCode, lookedUp>>

\* tcpProbe: the dial succeeds after connDuration and handleConnSuccess
\* records it.
TcpProbeSuccess ==
    /\ Running /\ pc = "dialing"
    /\ UNCHANGED watch
    /\ \E connDuration \in ConnDurs :
          \E rtt \in {nanoToMillisecond(connDuration * NanosPerMilli)} :
          LET elapsed == maxDuration(connDuration, t.userInput.intervalBetweenProbes)
          IN  /\ AdvanceClock(now + connDuration)
              /\ t' = handleConnSuccess(Fresh(t), rtt, connStart, elapsed)
              /\ hist' = Append(hist, [ok |-> TRUE, start |-> connStart,
                                       dur |-> connDuration, target |-> DialTarget(t)])
    /\ pc' = "tick"
    /\ prev' = t /\ last' = "probeSuccess" /\ by' = "main"
    /\ UNCHANGED <<args, stdinPending, connStart, probeCount, exitCode, lookedUp>>

\* tcpProbe: <-tcping.ticker.C takes the waiting tick or waits for the next.
TickWait ==
    /\ Running /\ pc = "tick"
    /\ UNCHANGED watch
    /\ IF tickReady
       THEN /\ tickReady' = FALSE
            /\ UNCHANGED <<now, tickAt>>
       ELSE /\ now' = tickAt
            /\ tickAt' = tickAt + Interval
            /\ tickReady' = FALSE
    /\ pc' = "select"
    /\ t' = Fresh(t) /\ prev' = t /\ last' = "tick" /\ by' = "main"
    /\ UNCHANGED <<args, stdinPending, connStart, probeCount, exitCode, hist, lookedUp>>

\* main: the select receives from stdinchan and printStats runs.
SelectStdin ==
    /\ Running /\ pc = "select"
    /\ UNCHANGED watch
    /\ stdinPending
    /\ stdinPending' = FALSE
    /\ t' = printStats(Fresh(t), now)
    /\ pc' = "limit"
    /\ prev' = t /\ last' = "printStats" /\ by' = "main"
    /\ UNCHANGED <<args, now, tickAt, tickReady, connStart, probeCount, exitCode, hist,
                   lookedUp>>

\* main: the select takes its default branch.
SelectDefault ==
    /\ Running /\ pc = "select"
    /\ UNCHANGED watch
    /\ ~stdinPending
    /\ pc' = "limit"
    /\ t' = Fresh(t) /\ prev' = t /\ last' = "selectDefault" /\ by' = "main"
    /\ UNCHANGED <<args, now, tickAt, tickReady, stdinPending, connStart, probeCount,
                   exitCode, hist, lookedUp>>

\* The probe-count limit compared before probeCount is incremented: one probe
\* more is made.
LimitCheckComparesFirst ==
    /\ Running /\ pc = "limit"
    /\ UNCHANGED watch
    /\ IF t.userInput.probesBeforeQuit # 0
       THEN /\ probeCount' = probeCount + 1
            /\ IF probeCount = t.userInput.probesBeforeQuit
               THEN /\ t' = shutdown(Fresh(t), now)
                    /\ exitCode' = 0
                    /\ pc' = "exited"
                    /\ last' = "shutdown"
               ELSE /\ t' = Fresh(t)
                    /\ exitCode' = exitCode
                    /\ pc' = "retry"
                    /\ last' = "limit"
       ELSE /\ probeCount' = probeCount
            /\ t' = Fresh(t)
            /\ exitCode' = exitCode
            /\ pc' = "retry"
            /\ last' = "limit"
    /\ prev' = t /\ by' = "main"
    /\ UNCHANGED <<args, now, tickAt, tickReady, stdinPending, connStart, hist, lookedUp>>

\* main: the probe-count limit; reaching it is shutdown.
LimitCheck ==
    /\ Running /\ pc = "limit"
    /\ UNCHANGED watch
    /\ IF t.userInput.probesBeforeQuit # 0
       THEN /\ probeCount' = probeCount + 1
            /\ IF probeCount' = t.userInput.probesBeforeQuit
               THEN /\ t' = shutdown(Fresh(t), now)
                    /\ exitCode' = 0
                    /\ pc' = "exited"
                    /\ last' = "shutdown"
               ELSE /\ t' = Fresh(t)
                    /\ exitCode' = exitCode
                    /\ pc' = "retry"
                    /\ last' = "limit"
       ELSE /\ probeCount' = probeCount
            /\ t' = Fresh(t)
            /\ exitCode' = exitCode
            /\ pc' = "retry"
            /\ last' = "limit"
    /\ prev' = t /\ by' = "main"
    /\ UNCHANGED <<args, now, tickAt, tickReady, stdinPending, connStart, hist, lookedUp>>

\* ------------------------------------------------------------- watchers
\* signalHandler's goroutine, started once processUserInput has returned:
\* SIGINT or SIGTERM arrives and the goroutine runs shutdown.
SignalShutdown ==
    /\ Running /\ pc # "startup"
    /\ UNCHANGED watch
    /\ t' = shutdown(Fresh(t), now)
    /\ exitCode' = 0
    /\ pc' = "exited"
    /\ prev' = t /\ last' = "shutdown" /\ by' = "signalHandler"
    /\ UNCHANGED <<args, now, tickAt, tickReady, stdinPending, connStart, probeCount,
                   hist, lookedUp>>

\* signal.Notify: SIGINT or SIGTERM arrives and waits in sigChan, which holds
\* one signal.
SignalDeliver ==
    /\ Running /\ pc # "startup"
    /\ ~sigPending
    /\ sigPending' = TRUE
    /\ UNCHANGED <<args, t, now, pc, tickAt, tickReady, stdinPending, connStart,
                   probeCount, exitCode, hist, prev, last, by, lookedUp, typed,
                   linesRead>>

\* The signal taken up only when no dial is in flight.
SignalReceiveBetweenProbes ==
    /\ Running /\ sigPending
    /\ pc # "dialing"
    /\ sigPending' = FALSE
    /\ t' = shutdown(Fresh(t), now)
    /\ exitCode' = 0
    /\ pc' = "exited"
    /\ prev' = t /\ last' = "shutdown" /\ by' = "signalHandler"
    /\ UNCHANGED <<args, now, tickAt, tickReady, stdinPending, connStart, probeCount,
                   hist, lookedUp, typed, linesRead>>

\* signalHandler's goroutine receives the signal from sigChan and runs
\* shutdown, wherever main stands.
SignalReceive ==
    /\ Running /\ sigPending
    /\ sigPending' = FALSE
    /\ t' = shutdown(Fresh(t), now)
    /\ exitCode' = 0
    /\ pc' = "exited"
    /\ prev' = t /\ last' = "shutdown" /\ by' = "signalHandler"
    /\ UNCHANGED <<args, now, tickAt, tickReady, stdinPending, connStart, probeCount,
                   hist, lookedUp, typed, linesRead>>

\* monitorSTDIN, started before the loop: a blank line was read; the send on
\* stdinchan blocks until main's select receives it.
StdinBlank ==
    /\ Running /\ pc # "startup"
    /\ UNCHANGED watch
    /\ ~stdinPending
    /\ stdinPending' = TRUE
    /\ UNCHANGED <<args, t, now, pc, tickAt, tickReady, connStart, probeCount, exitCode,
                   hist, prev, last, by, lookedUp>>

\* What monitorSTDIN takes for the Enter key: a line that is its terminator
\* only.
IsBlankLine(input) == input \in {"\n", "\r", "\r\n"}

\* A line is typed on standard input; it waits there until monitorSTDIN reads
\* it.
TypeLine ==
    /\ Running /\ pc # "startup"
    /\ Len(typed) < MaxLines
    /\ \E input \in StdinLines : typed' = Append(typed, input)
    /\ UNCHANGED <<args, t, now, pc, tickAt, tickReady, stdinPending, connStart,
                   probeCount, exitCode, hist, prev, last, by, lookedUp, sigPending,
                   linesRead>>

\* monitorSTDIN sending on stdinchan for whatever line it has read.
StdinReadSignalsEveryLine ==
    /\ Running /\ pc # "startup"
    /\ ~stdinPending
    /\ linesRead < Len(typed)
    /\ linesRead' = linesRead + 1
    /\ stdinPending' = TRUE
    /\ UNCHANGED <<args, t, now, pc, tickAt, tickReady, connStart, probeCount, exitCode,
                   hist, prev, last, by, lookedUp, sigPending, typed>>

\* monitorSTDIN: ReadString returns the next line; for the Enter key the
\* goroutine sends on stdinchan, where it stays blocked until main's select
\* receives, and reads no further line until then.
StdinRead ==
    /\ Running /\ pc # "startup"
    /\ ~stdinPending
    /\ linesRead < Len(typed)
    /\ linesRead' = linesRead + 1
    /\ stdinPending' = IsBlankLine(typed[linesRead + 1])
    /\ UNCHANGED <<args, t, now, pc, tickAt, tickReady, connStart, probeCount, exitCode,
                   hist, prev, last, by, lookedUp, sigPending, typed>>

Next ==
    \/ ProcessUserInput
    \/ RetrySkip
    \/ RetryResolve
    \/ TcpProbeDial
    \/ TcpProbeError
    \/ TcpProbeSuccess
    \/ TickWait
    \/ SelectStdin
    \/ SelectDefault
    \/ LimitCheck
    \/ SignalShutdown
    \/ StdinBlank

Spec == Init /\ [][Next]_vars

\* ------------------------------------------------------------- the tracker
\* The session of the plain command line, followed for more probes: long
\* enough for two intervals of one kind to close.
InitTracker == Init /\ args = BaseLine

TcpProbeDialTracker == TcpProbeDialUpTo(TrackerProbes)

NextTracker ==
    \/ ProcessUserInput
    \/ RetrySkip
    \/ TcpProbeDialTracker
    \/ TcpProbeError
    \/ TcpProbeSuccess
    \/ TickWait
    \/ SelectStdin
    \/ SelectDefault
    \/ LimitCheck
    \/ SignalShutdown
    \/ StdinBlank

SpecTracker == InitTracker /\ [][NextTracker]_vars

\* ------------------------------------------------------------- no signal
\* Sessions that no signal ends: main's goroutine keeps taking steps (every
\* dial returns, every tick comes), the input watcher may or may not act.
InitLimit ==
    /\ Init
    /\ args \in {[BaseLine EXCEPT !.probesBeforeQuit = c, !.retryResolve = r] :
                    c \in ProbeLimits, r \in RetryAfters}

MainStep ==
    \/ ProcessUserInput
    \/ RetrySkip
    \/ RetryResolve
    \/ TcpProbeDial
    \/ TcpProbeError
    \/ TcpProbeSuccess
    \/ TickWait
    \/ SelectStdin
    \/ SelectDefault
    \/ LimitCheck

NextLimit ==
    \/ ProcessUserInput
    \/ RetrySkip
    \/ RetryResolve
    \/ TcpProbeDial
    \/ TcpProbeError
    \/ TcpProbeSuccess
    \/ TickWait
    \/ SelectStdin
    \/ SelectDefault
    \/ LimitCheck
    \/ StdinBlank

SpecLimit == InitLimit /\ [][NextLimit]_vars /\ WF_vars(MainStep)

\* ------------------------------------------------------------- signal
\* Sessions in which a signal may arrive at any point of the loop and nothing
\* is typed. Only signalHandler's goroutine is sure to run once it can: a dial
\* may never return, and main may stand still.
InitSignal ==
    /\ Init
    /\ args \in {[BaseLine EXCEPT !.probesBeforeQuit = c, !.retryResolve = 1] :
                    c \in ProbeLimits}

NextSignal ==
    \/ ProcessUserInput
    \/ RetryResolve
    \/ TcpProbeDial
    \/ TcpProbeError
    \/ TcpProbeSuccess
    \/ TickWait
    \/ SelectDefault
    \/ LimitCheck
    \/ SignalDeliver
    \/ SignalReceive

SpecSignal == InitSignal /\ [][NextSignal]_vars /\ WF_vars(SignalReceive)

\* ------------------------------------------------------------- input
\* Sessions of the plain command line in which lines are typed and no signal
\* arrives. Main's goroutine and the input watcher keep taking steps.
InitInput == Init /\ args = BaseLine

NextInput ==
    \/ ProcessUserInput
    \/ RetrySkip
    \/ TcpProbeDial
    \/ TcpProbeError
    \/ TcpProbeSuccess
    \/ TickWait
    \/ SelectStdin
    \/ SelectDefault
    \/ LimitCheck
    \/ TypeLine
    \/ StdinRead

SpecInput ==
    InitInput /\ [][NextInput]_vars /\ WF_vars(MainStep) /\ WF_vars(StdinRead)

\* ------------------------------------------------------------- packet loss
\* The probe counts a snapshot is printed from: small ones, and ones around
\* 2^24, where float32 stops holding every integer.
ProbeCounts == (0..MaxCount) \cup {Pow2(24) - 1, Pow2(24), Pow2(24) + 1}

\* A struct holding some probe counts, about to be printed.
InitLoss ==
    /\ args = BaseLine
    /\ t \in {[ZeroTcping EXCEPT !.totalSuccessfulProbes = s,
                                 !.totalUnsuccessfulProbes = f] :
                s \in ProbeCounts, f \in ProbeCounts}
    /\ prev = ZeroTcping
    /\ now = 1
    /\ pc = "snapshot"
    /\ tickAt = 0
    /\ tickReady = FALSE
    /\ stdinPending = FALSE
    /\ connStart = 0
    /\ probeCount = 0
    /\ exitCode = -1
    /\ hist = <<>>
    /\ last = "init"
    /\ by = "main"
    /\ lookedUp = "none"
    /\ sigPending = FALSE
    /\ typed = <<>>
    /\ linesRead = 0

\* printStatistics of the colour, the plain and the JSON printer, each given
\* the same struct: what each makes of the packet loss.
PrintPacketLoss ==
    /\ pc = "snapshot"
    /\ t' = [t EXCEPT !.printer = <<colorPrinterPacketLoss(t), plainPrinterPacketLoss(t),
                                    jsonPrinterPacketLoss(t)>>]
    /\ pc' = "printed"
    /\ prev' = t /\ last' = "printStatistics"
    /\ UNCHANGED <<args, now, tickAt, tickReady, stdinPending, connStart, probeCount,
                   exitCode, hist, by, lookedUp, sigPending, typed, linesRead>>

NextLoss == PrintPacketLoss

SpecLoss == InitLoss /\ [][NextLoss]_vars

\* ------------------------------------------------------------- RTT summary
\* Connection times in nanoseconds, as time.Since returns them.
RttNanos == {0, 100004, 100006, 123457, 1000000, 3000000}

\* The RTT samples the struct may hold: what nanoToMillisecond makes of
\* connection times, up to MaxSamples of them in any order.
RttSamples ==
    UNION {[1..n -> {nanoToMillisecond(nano) : nano \in RttNanos}] : n \in 0..MaxSamples}

\* A struct holding some RTT samples, about to be summarized.
InitRtt ==
    /\ args = BaseLine
    /\ t \in {[ZeroTcping EXCEPT !.rtt = s, !.totalSuccessfulProbes = Len(s)] :
                s \in RttSamples}
    /\ prev = ZeroTcping
    /\ now = 1
    /\ pc = "snapshot"
    /\ tickAt = 0
    /\ tickReady = FALSE
    /\ stdinPending = FALSE
    /\ connStart = 0
    /\ probeCount = 0
    /\ exitCode = -1
    /\ hist = <<>>
    /\ last = "init"
    /\ by = "main"
    /\ lookedUp = "none"
    /\ sigPending = FALSE
    /\ typed = <<>>
    /\ linesRead = 0

\* printStats and shutdown: t.rttResults = calcMinAvgMaxRttTime(t.rtt).
SummarizeRtt ==
    /\ pc = "snapshot"
    /\ t' = [t EXCEPT !.rttResults = calcMinAvgMaxRttTime(t.rtt)]
    /\ pc' = "summarized"
    /\ prev' = t /\ last' = "calcMinAvgMaxRttTime"
    /\ UNCHANGED <<args, now, tickAt, tickReady, stdinPending, connStart, probeCount,
                   exitCode, hist, by, lookedUp, sigPending, typed, linesRead>>

NextRtt == SummarizeRtt

SpecRtt == InitRtt /\ [][NextRtt]_vars

\* ------------------------------------------------------------- lookup
\* What LookupNetIP may return for the name: up to MaxAddrs addresses, at
\* least one, in any order.
ResolvedLists == UNION {[1..n -> ResolvedAddrs] : n \in 1..MaxAddrs}

\* resolveHostname at its last line: the lookup has returned ipAddrs, and the
\* family flags are as setIPFlags left them.
InitSelect ==
    /\ \E ip4 \in BOOLEAN, ip6 \in BOOLEAN :
          /\ ~(ip4 /\ ip6)
          /\ args = [BaseLine EXCEPT !.ip4 = ip4, !.ip6 = ip6]
          /\ t = [ZeroTcping EXCEPT !.userInput.hostname = HostName,
                                    !.userInput.useIPv4 = ip4,
                                    !.userInput.useIPv6 = ip6]
    /\ lookedUp \in ResolvedLists
    /\ prev = ZeroTcping
    /\ now = 1
    /\ pc = "resolved"
    /\ tickAt = 0
    /\ tickReady = FALSE
    /\ stdinPending = FALSE
    /\ connStart = 0
    /\ probeCount = 0
    /\ exitCode = -1
    /\ hist = <<>>
    /\ last = "init"
    /\ by = "main"
    /\ sigPending = FALSE
    /\ typed = <<>>
    /\ linesRead = 0

\* resolveHostname returns what selectResolvedIP chose, and its caller stores
\* it in userInput.ip; or selectResolvedIP has ended the process.
SelectResolvedIP ==
    /\ Running /\ pc = "resolved"
    /\ \E rnd \in 0..(MaxAddrs - 1) :
          LET r == selectResolvedIP(Fresh(t), lookedUp, rnd)
          IN  IF r.exit
              THEN /\ t' = r.tc
                   /\ exitCode' = 1
                   /\ pc' = "exited"
              ELSE /\ t' = [r.tc EXCEPT !.userInput.ip = r.ip]
                   /\ exitCode' = exitCode
                   /\ pc' = "selected"
    /\ prev' = t /\ last' = "selectResolvedIP"
    /\ UNCHANGED <<args, now, tickAt, tickReady, stdinPending, connStart, probeCount,
                   hist, by, lookedUp, sigPending, typed, linesRead>>

NextSelect == SelectResolvedIP

SpecSelect == InitSelect /\ [][NextSelect]_vars

\* ------------------------------------------------------------- timeout
\* Sessions of the plain command line with a -t value: nothing, whole
\* milliseconds up to MaxTimeout, the same and half a millisecond, and
\* 9223372036.8555 seconds, whose millisecond count times time.Millisecond
\* passes 2^63 - 1 (9223372036855 * 10^6 = 2^63 + 224192).
TimeoutArgs ==
    {FlagSeconds(FALSE, Int64(m), u) : m \in 0..MaxTimeout, u \in {0, 500}}
    \cup {FlagSeconds(FALSE, <<23287, 31696, 2147, 0>>, 500)}

InitTimeout == InitFrom({[BaseLine EXCEPT !.timeout = s] : s \in TimeoutArgs})

\* net.DialTimeout and the dialer of newNetworkInterface: a timeout of zero
\* is no deadline at all.
HasDeadline(tc) == tc.userInput.timeout # Int64(0)

\* The dial may return after dur clock units: any time when there is no
\* deadline, by the deadline when there is one, and at once (within the
\* clock's grain) when the deadline lies in the past.
ReturnsInTime(tc, dur) ==
    IF ~HasDeadline(tc) THEN TRUE
    ELSE IF IsNeg64(tc.userInput.timeout) THEN dur = 1
    ELSE dur <= ClockUnits(tc.userInput.timeout)

\* tcpProbe: the dial fails, by the deadline if there is one.
DialTimeoutError ==
    /\ TcpProbeError
    /\ ReturnsInTime(t, hist'[Len(hist')].dur)

\* tcpProbe: the dial succeeds, before a deadline that lies ahead.
DialTimeoutSuccess ==
    /\ TcpProbeSuccess
    /\ ~IsNeg64(t.userInput.timeout)
    /\ ReturnsInTime(t, hist'[Len(hist')].dur)

NextTimeout ==
    \/ ProcessUserInput
    \/ RetrySkip
    \/ TcpProbeDial
    \/ DialTimeoutError
    \/ DialTimeoutSuccess
    \/ TickWait
    \/ SelectDefault
    \/ LimitCheck

SpecTimeout == InitTimeout /\ [][NextTimeout]_vars

\* ------------------------------------------------------------- shutdown
\* Sessions that end at the probe-count limit, on every sink, with main's
\* shutdown followed statement by statement: a signal may be received while
\* main is between two of them.
InitShutdown ==
    InitFrom({[BaseLine EXCEPT !.outputDB = db, !.saveToCSV = csv,
                               !.probesBeforeQuit = MaxProbes - 1] :
                 db \in {"", "out.db"}, csv \in {"", "out.csv"}})

\* main: the probe-count limit; reaching it is the call of shutdown.
LimitCount ==
    /\ Running /\ pc = "limit"
    /\ UNCHANGED watch
    /\ probeCount' = probeCount + 1
    /\ pc' = IF probeCount' = t.userInput.probesBeforeQuit THEN "shutdown" ELSE "retry"
    /\ t' = Fresh(t) /\ prev' = t /\ last' = "limit" /\ by' = "main"
    /\ UNCHANGED <<args, now, tickAt, tickReady, stdinPending, connStart, exitCode, hist,
                   lookedUp>>

\* shutdown called by main: endTime is set and printStats runs.
ShutdownPrintStats ==
    /\ Running /\ pc = "shutdown"
    /\ UNCHANGED watch
    /\ t' = printStats([Fresh(t) EXCEPT !.endTime = now], now)
    /\ pc' = "release"
    /\ prev' = t /\ last' = "shutdownPrintStats" /\ by' = "main"
    /\ UNCHANGED <<args, now, tickAt, tickReady, stdinPending, connStart, probeCount,
                   exitCode, hist, lookedUp>>

\* shutdown called by main: db.conn.Close or cp.cleanup, for the sink that
\* has one.
ShutdownRelease ==
    /\ Running /\ pc = "release"
    /\ UNCHANGED watch
    /\ t' = IF t.sink.kind \in {"database", "csv"} THEN releaseSink(Fresh(t)) ELSE Fresh(t)
    /\ pc' = "exit"
    /\ prev' = t /\ last' = "shutdownRelease" /\ by' = "main"
    /\ UNCHANGED <<args, now, tickAt, tickReady, stdinPending, connStart, probeCount,
                   exitCode, hist, lookedUp>>

\* shutdown called by main: os.Exit(0).
ShutdownExit ==
    /\ Running /\ pc = "exit"
    /\ UNCHANGED watch
    /\ exitCode' = 0
    /\ pc' = "exited"
    /\ t' = Fresh(t) /\ prev' = t /\ last' = "shutdownExit" /\ by' = "main"
    /\ UNCHANGED <<args, now, tickAt, tickReady, stdinPending, connStart, probeCount,
                   hist, lookedUp>>

NextShutdown ==
    \/ ProcessUserInput
    \/ RetrySkip
    \/ TcpProbeDial
    \/ TcpProbeError
    \/ TcpProbeSuccess
    \/ TickWait
    \/ SelectStdin
    \/ SelectDefault
    \/ LimitCount
    \/ ShutdownPrintStats
    \/ ShutdownRelease
    \/ ShutdownExit
    \/ StdinBlank
    \/ SignalDeliver
    \/ SignalReceive

SpecShutdown == InitShutdown /\ [][NextShutdown]_vars

\* ------------------------------------------------------------- recording
\* Sessions of the plain command line in which a signal may be received
\* between two probes, during a dial, or while main is between two statements
\* of the handler that records the outcome. The handler's run of shutdown is
\* taken as one step.
InitRecording == InitFrom({BaseLine})

\* The signal is received when main has executed the first k statements of
\* handleConnError: shutdown reads the struct as it then is.
SignalReceiveInHandleConnError ==
    /\ Running /\ sigPending /\ pc = "dialing"
    /\ sigPending' = FALSE
    /\ \E connDuration \in ConnDurs, k \in 1..8 :
          \E torn \in {handleConnErrorUpTo(Fresh(t), connStart,
                           maxDuration(connDuration, t.userInput.intervalBetweenProbes), k)} :
              /\ AdvanceClock(now + connDuration)
              /\ t' = shutdown(Fresh(torn), now + connDuration)
              /\ prev' = torn
              /\ hist' = Append(hist, [ok |-> FALSE, start |-> connStart,
                                       dur |-> connDuration, target |-> DialTarget(t)])
    /\ exitCode' = 0
    /\ pc' = "exited"
    /\ last' = "shutdownWhileRecording" /\ by' = "signalHandler"
    /\ UNCHANGED <<args, stdinPending, connStart, probeCount, lookedUp, typed, linesRead>>

\* The signal is received when main has executed the first k statements of
\* handleConnSuccess.
SignalReceiveInHandleConnSuccess ==
    /\ Running /\ sigPending /\ pc = "dialing"
    /\ sigPending' = FALSE
    /\ \E connDuration \in ConnDurs, k \in 1..13 :
          \E torn \in {handleConnSuccessUpTo(Fresh(t),
                           nanoToMillisecond(connDuration * NanosPerMilli), connStart,
                           maxDuration(connDuration, t.userInput.intervalBetweenProbes), k)} :
              /\ AdvanceClock(now + connDuration)
              /\ t' = shutdown(Fresh(torn), now + connDuration)
              /\ prev' = torn
              /\ hist' = Append(hist, [ok |-> TRUE, start |-> connStart,
                                       dur |-> connDuration, target |-> DialTarget(t)])
    /\ exitCode' = 0
    /\ pc' = "exited"
    /\ last' = "shutdownWhileRecording" /\ by' = "signalHandler"
    /\ UNCHANGED <<args, stdinPending, connStart, probeCount, lookedUp, typed, linesRead>>

NextRecording ==
    \/ ProcessUserInput
    \/ RetrySkip
    \/ TcpProbeDial
    \/ TcpProbeError
    \/ TcpProbeSuccess
    \/ TickWait
    \/ SelectStdin
    \/ SelectDefault
    \/ LimitCheck
    \/ StdinBlank
    \/ SignalDeliver
    \/ SignalReceive
    \/ SignalReceiveInHandleConnError
    \/ SignalReceiveInHandleConnSuccess

SpecRecording == InitRecording /\ [][NextRecording]_vars

\* ------------------------------------------------------------- history
\* The latest recorded probe.
LastProbe == hist[Len(hist)]

\* The latest step recorded a probe outcome.
ProbeStep == last \in {"probeError", "probeSuccess"}

\* Length of the run of consecutive same-outcome probes that ends h.
RECURSIVE RunLen(_)
RunLen(h) ==
    IF Len(h) <= 1 THEN Len(h)
    ELSE IF h[Len(h) - 1].ok = h[Len(h)].ok
         THEN 1 + RunLen(SubSeq(h, 1, Len(h) - 1))
         ELSE 1

\* Start time of the first probe of that run.
RunStart(h) == h[Len(h) - RunLen(h) + 1].start

\* The history before the latest probe.
Earlier == SubSeq(hist, 1, Len(hist) - 1)

\* The events of one type written by the latest step, in order.
EventsOf(type) == SelectSeq(t.printer, LAMBDA e : e.type = type)

\* Positions of the events of one type in the latest step's output.
PositionsOf(type) == {i \in 1..Len(t.printer) : t.printer[i].type = type}

\* What one probe of duration d is to add to the accounted time.
Accrual(d) == IF d >= Interval THEN d ELSE Interval

RECURSIVE AccrualSum(_)
AccrualSum(h) == IF h = <<>> THEN 0 ELSE Accrual(h[1].dur) + AccrualSum(Tail(h))

\* ------------------------------------------------------------- claims

\* C1: once a probe outcome is recorded, a failure leaves the tracker Down
\* with the uptime marker cleared and the downtime marker at the start of the
\* first failure of the current run of failures; a success leaves it Up with
\* the downtime marker cleared and the uptime marker at the start of the
\* first success of the current run of successes.  The two markers are never
\* both set.
C1_MarkersFollowRuns ==
    /\ t.startOfUptime = 0 \/ t.startOfDowntime = 0
    /\ hist # <<>> =>
         IF LastProbe.ok
         THEN /\ ~t.destWasDown
              /\ t.startOfDowntime = 0
              /\ t.startOfUptime = RunStart(hist)
         ELSE /\ t.destWasDown
              /\ t.startOfUptime = 0
              /\ t.startOfDowntime = RunStart(hist)

\* C1 witness: a success, then two failures; the downtime marker is the start
\* of the first of the two failures.
C1_Witness ==
    /\ last = "probeError"
    /\ Len(hist) = 3
    /\ hist[1].ok /\ ~hist[2].ok /\ ~hist[3].ok
    /\ t.destWasDown
    /\ t.startOfDowntime = hist[2].start
    /\ t.startOfDowntime # hist[3].start

\* C2 (as claimed): the probe event written by a probe step carries the
\* number of consecutive same-outcome probes ending with that probe.
C2_StreakIsRunLength ==
    ProbeStep =>
        /\ \A i \in PositionsOf("probeFail") : t.printer[i].streak = RunLen(hist)
        /\ \A i \in PositionsOf("probeSuccess") : t.printer[i].streak = RunLen(hist)

\* C3 (as claimed): on a step that does not change the Up/Down flag neither
\* streak counter decreases.
C3_StreaksNeverDecrease ==
    prev.destWasDown = t.destWasDown =>
        /\ t.ongoingSuccessfulProbes >= prev.ongoingSuccessfulProbes
        /\ t.ongoingUnsuccessfulProbes >= prev.ongoingUnsuccessfulProbes

\* C4: a success recorded while the tracker is Down is written with success
\* streak 1 and leaves the success streak at 1 and the failure streak at 0,
\* whatever the streaks were before.
C4_RecoveryResetsStreaks ==
    (last = "probeSuccess" /\ prev.destWasDown) =>
        /\ t.ongoingSuccessfulProbes = 1
        /\ t.ongoingUnsuccessfulProbes = 0
        /\ \A i \in PositionsOf("probeSuccess") : t.printer[i].streak = 1
        /\ ~t.userInput.showFailuresOnly => PositionsOf("probeSuccess") # {}

\* C4 witness: success, failure, success without a retry: both
\* streak counters were positive before the recovering probe.
C4_Witness ==
    /\ last = "probeSuccess"
    /\ prev.destWasDown
    /\ prev.ongoingSuccessfulProbes >= 1
    /\ prev.ongoingUnsuccessfulProbes >= 1
    /\ PositionsOf("probeSuccess") # {}

\* C5: a recovered (total downtime) event is written by a step exactly when
\* that step records a success and the previous probe failed, which is when
\* the success is recorded with the tracker Down; it is the first
\* event of the step (before the probe-success event) and its duration is the
\* recovering probe's start minus the start of the first failure of the
\* downtime.
C5_RecoveredEvent ==
    LET recovers == /\ last = "probeSuccess"
                    /\ Len(hist) >= 2
                    /\ ~hist[Len(hist) - 1].ok
    IN  /\ PositionsOf("totalDownTime") # {} <=> recovers
        /\ recovers <=> (last = "probeSuccess" /\ prev.destWasDown)
        /\ recovers =>
              /\ PositionsOf("totalDownTime") = {1}
              /\ t.printer[1].downtime = LastProbe.start - RunStart(Earlier)
              /\ \A i \in PositionsOf("probeSuccess") : i > 1

\* C5 witness: two failures and the recovering success; the event reports the
\* time from the first failure and is followed by the probe-success event.
C5_Witness ==
    /\ last = "probeSuccess"
    /\ Len(hist) = 3
    /\ ~hist[1].ok /\ ~hist[2].ok /\ hist[3].ok
    /\ Len(t.printer) = 2
    /\ t.printer[1].type = "totalDownTime"
    /\ t.printer[1].downtime = hist[3].start - hist[1].start
    /\ t.printer[2].type = "probeSuccess"

\* C6: a probe of duration d adds max(d, interval) to exactly one
\* accumulator (uptime on success, downtime on failure) and leaves the other
\* unchanged; the two accumulators together hold the sum of max(d_i, interval)
\* over the recorded probes, which is at least n * interval.
C6_ElapsedAccrual ==
    /\ last = "probeSuccess" =>
          /\ t.totalUptime = prev.totalUptime + Accrual(LastProbe.dur)
          /\ t.totalDowntime = prev.totalDowntime
    /\ last = "probeError" =>
          /\ t.totalDowntime = prev.totalDowntime + Accrual(LastProbe.dur)
          /\ t.totalUptime = prev.totalUptime
    /\ t.totalUptime + t.totalDowntime = AccrualSum(hist)
    /\ t.totalUptime + t.totalDowntime >= Len(hist) * Interval

\* C6 witness: a short success and a long failure have both been recorded.
C6_Witness ==
    /\ \E i \in 1..Len(hist) : hist[i].ok /\ hist[i].dur < Interval
    /\ \E i \in 1..Len(hist) : ~hist[i].ok /\ hist[i].dur > Interval
    /\ t.totalUptime = Interval
    /\ t.totalDowntime > Interval

\* C7 (as claimed): at the end of every cycle (tcpProbe has returned) the
\* accumulated uptime plus the accumulated downtime is at least the wall-clock
\* time elapsed since the first probe started.
C7_AccountedCoversWallClock ==
    (pc \in {"select", "limit", "retry"} /\ hist # <<>>) =>
        t.totalUptime + t.totalDowntime >= now - hist[1].start

\* Number of successful probes in a history.
RECURSIVE Successes(_)
Successes(h) ==
    IF h = <<>> THEN 0 ELSE (IF h[1].ok THEN 1 ELSE 0) + Successes(Tail(h))

\* C8: every completed probe is recorded exactly once: the successful and
\* unsuccessful counts add up to the number of probes, there is one stored RTT
\* sample per successful probe, and recording a failure leaves the process
\* running (the process ends only at start-up or in shutdown).
C8_OneOutcomePerProbe ==
    /\ t.totalSuccessfulProbes + t.totalUnsuccessfulProbes = Len(hist)
    /\ t.totalSuccessfulProbes = Successes(hist)
    /\ Len(t.rtt) = t.totalSuccessfulProbes
    /\ last = "probeError" => (exitCode = -1 /\ pc = "tick")
    /\ exitCode # -1 => last \in {"startup", "shutdown"}

\* C8 witness: three probes recorded, failures and successes among them, the
\* latest a failure with failures-only display on, and the process runs on.
C8_Witness ==
    /\ last = "probeError"
    /\ Len(hist) = 3
    /\ t.totalSuccessfulProbes = 2
    /\ t.totalUnsuccessfulProbes = 1
    /\ t.userInput.showFailuresOnly
    /\ exitCode = -1

Scrub(tc) == [tc EXCEPT !.longestUptime = ZeroLongest,
                        !.longestDowntime = ZeroLongest,
                        !.rttResults = calcMinAvgMaxRttTime(<<>>),
                        !.endTime = 0,
                        !.printer = <<>>]

\* C10: a snapshot leaves the counts, the streak counters, the accumulated
\* uptime and downtime, the Up/Down flag, the interval start markers, the
\* last-success and last-failure timestamps, the RTT samples, the retry counter
\* and the address-change sequence unchanged; and the events a probe step
\* writes do not depend on the fields a snapshot does write.
C10_SnapshotFrame ==
    /\ last \in {"printStats", "shutdown"} =>
          /\ t.totalSuccessfulProbes = prev.totalSuccessfulProbes
          /\ t.totalUnsuccessfulProbes = prev.totalUnsuccessfulProbes
          /\ t.ongoingSuccessfulProbes = prev.ongoingSuccessfulProbes
          /\ t.ongoingUnsuccessfulProbes = prev.ongoingUnsuccessfulProbes
          /\ t.totalUptime = prev.totalUptime
          /\ t.totalDowntime = prev.totalDowntime
          /\ t.destWasDown = prev.destWasDown
          /\ t.startOfUptime = prev.startOfUptime
          /\ t.startOfDowntime = prev.startOfDowntime
          /\ t.lastSuccessfulProbe = prev.lastSuccessfulProbe
          /\ t.lastUnsuccessfulProbe = prev.lastUnsuccessfulProbe
          /\ t.rtt = prev.rtt
          /\ t.retriedHostnameLookups = prev.retriedHostnameLookups
          /\ t.hostnameChanges = prev.hostnameChanges
    /\ last = "probeError" =>
          t.printer = handleConnError(Scrub(prev), LastProbe.start,
                                      Accrual(LastProbe.dur)).printer
    /\ last = "probeSuccess" =>
          t.printer = handleConnSuccess(Scrub(prev),
                                        nanoToMillisecond(LastProbe.dur * NanosPerMilli),
                                        LastProbe.start, Accrual(LastProbe.dur)).printer

\* C10 witness: an interactive snapshot taken during a downtime that follows
\* an uptime, with RTT samples stored; it wrote a longest-downtime record.
C10_Witness ==
    /\ last = "printStats"
    /\ t.destWasDown
    /\ t.rtt # <<>>
    /\ t.totalUnsuccessfulProbes >= 1
    /\ t.longestDowntime # prev.longestDowntime
    /\ EventsOf("statistics") # <<>>

\* C11: no step of a session - a probe outcome, an interactive snapshot, the
\* final shutdown summary or any other - makes the duration of the stored
\* longest-uptime record or of the stored longest-downtime record smaller.
C11_LongestNeverShrinks ==
    /\ t.longestUptime.duration >= prev.longestUptime.duration
    /\ t.longestDowntime.duration >= prev.longestDowntime.duration

\* C11 witness: a snapshot taken while an uptime is open that is shorter than
\* the stored longest uptime; the stored record stays.
C11_Witness ==
    /\ last \in {"printStats", "shutdown"}
    /\ ~prev.destWasDown
    /\ prev.startOfUptime # 0
    /\ prev.longestUptime.end # 0
    /\ now - prev.startOfUptime > 0
    /\ now - prev.startOfUptime < prev.longestUptime.duration
    /\ t.longestUptime = prev.longestUptime

\* The latest step closed an uptime: a failure was recorded while Up.
UptimeCloses == last = "probeError" /\ ~prev.destWasDown /\ prev.startOfUptime # 0

\* The latest step closed a downtime: a success was recorded while Down.
DowntimeCloses == last = "probeSuccess" /\ prev.destWasDown /\ prev.startOfDowntime # 0

\* The interval from an open start marker to the start of the latest probe.
ClosedInterval(from) ==
    [start |-> from, end |-> LastProbe.start, duration |-> LastProbe.start - from]

\* C12: when an uptime (a downtime) closes with a duration equal to that of
\* the stored longest record, the stored record becomes the interval that has
\* just closed, with its start and end; when it closes with a strictly
\* smaller duration the stored record stays as it was.
C12_TieGoesToLater ==
    /\ UptimeCloses =>
          LET closed == ClosedInterval(prev.startOfUptime) IN
          /\ (prev.longestUptime.end # 0
                /\ closed.duration = prev.longestUptime.duration)
                => t.longestUptime = closed
          /\ closed.duration < prev.longestUptime.duration
                => t.longestUptime = prev.longestUptime
    /\ DowntimeCloses =>
          LET closed == ClosedInterval(prev.startOfDowntime) IN
          /\ (prev.longestDowntime.end # 0
                /\ closed.duration = prev.longestDowntime.duration)
                => t.longestDowntime = closed
          /\ closed.duration < prev.longestDowntime.duration
                => t.longestDowntime = prev.longestDowntime

\* C12 witness: a second uptime closes as long as the first, which was
\* stored; the record now starts where the second began.
C12_Witness ==
    /\ UptimeCloses
    /\ prev.longestUptime.end # 0
    /\ prev.longestUptime.start < prev.startOfUptime
    /\ prev.longestUptime.end <= prev.startOfUptime
    /\ LastProbe.start - prev.startOfUptime = prev.longestUptime.duration
    /\ t.longestUptime.start = prev.startOfUptime
    /\ t.longestUptime.end = LastProbe.start

\* A second downtime closes shorter than the stored longest downtime, which
\* stays.
C12_ShorterKept ==
    /\ DowntimeCloses
    /\ prev.longestDowntime.end # 0
    /\ prev.longestDowntime.start < prev.startOfDowntime
    /\ LastProbe.start - prev.startOfDowntime < prev.longestDowntime.duration
    /\ t.longestDowntime = prev.longestDowntime

\* The latest step was the retry step of a loop cycle.
RetryStep == last \in {"retrySkip", "retryResolve"}

\* The retry policy as the claim states it: a threshold above 0 and a target
\* given as a hostname, not as a literal address.
PolicyEnabled(tc) ==
    tc.userInput.retryHostnameLookupAfter > 0 /\ ParseAddr(tc.userInput.hostname).err

\* What the retry step must have done when it was due.
RetryDone ==
    /\ EventsOf("retryingResolve") = <<[type |-> "retryingResolve",
                                        hostname |-> prev.userInput.hostname]>>
    /\ t.ongoingUnsuccessfulProbes = 0
    /\ t.retriedHostnameLookups = prev.retriedHostnameLookups + 1

\* C13: the retry step of a cycle changes nothing and emits nothing unless
\* the retry policy is enabled (threshold N > 0, target given as a hostname)
\* and the consecutive-failure counter has reached N; when it is due it emits
\* one retrying-resolve event, resets that counter to 0 and adds exactly 1 to
\* the retry counter.  A due retry finds the tracker Down with exactly N
\* failures counted, so a downtime sees one re-resolution per N failed probes
\* and an uptime none.
C13_RetryOnlyWhenDue ==
    RetryStep =>
        LET n == prev.userInput.retryHostnameLookupAfter
            due == PolicyEnabled(prev) /\ prev.ongoingUnsuccessfulProbes >= n
        IN  /\ ~due => t = Fresh(prev)
            /\ due => RetryDone
            /\ due => (prev.destWasDown /\ prev.ongoingUnsuccessfulProbes = n)

\* The same with the policy read off the struct's shouldRetryResolve flag.
C13_RetryWhenFlagged ==
    RetryStep =>
        LET n == prev.userInput.retryHostnameLookupAfter
            due == prev.userInput.shouldRetryResolve /\ prev.ongoingUnsuccessfulProbes >= n
        IN  /\ ~due => t = Fresh(prev)
            /\ due => RetryDone
            /\ due => (prev.destWasDown /\ prev.ongoingUnsuccessfulProbes = n)

\* A retry that was due under the flag for a target given as a literal address.
C13_LiteralRetried ==
    /\ last = "retryResolve"
    /\ ~ParseAddr(prev.userInput.hostname).err
    /\ t.retriedHostnameLookups = prev.retriedHostnameLookups + 1

\* The session has passed start-up and entered the loop.
InSession == pc # "startup" /\ last # "init" /\ ~(last = "startup" /\ exitCode = 1)

\* The address of the last record of an address-change sequence.
LastAddr(changes) == changes[Len(changes)].Addr

\* The latest step was a retry that re-resolved the target.
Retried == last = "retryResolve"
           /\ t.retriedHostnameLookups = prev.retriedHostnameLookups + 1

\* C14: the address-change sequence is seeded at start-up with exactly one
\* record (the initial address, the start time); afterwards a step leaves it
\* as it was or - only a retry whose newly resolved address differs from the
\* last record's, and every such retry - appends one record holding the new
\* address and the time after the retry.  It is never truncated or
\* rewritten, no two adjacent records carry the same address, and the last
\* record carries the target address.
C14_ChangesAppendOnly ==
    InSession =>
        /\ Len(t.hostnameChanges) >= 1
        /\ t.hostnameChanges[1].When = t.startTime
        /\ LastAddr(t.hostnameChanges) = t.userInput.ip
        /\ \A i \in 1..(Len(t.hostnameChanges) - 1) :
              t.hostnameChanges[i].Addr # t.hostnameChanges[i + 1].Addr
        /\ last = "startup" =>
              t.hostnameChanges = <<[Addr |-> t.userInput.ip, When |-> t.startTime]>>
        /\ last # "startup" =>
              IF Retried /\ t.userInput.ip # LastAddr(prev.hostnameChanges)
              THEN t.hostnameChanges =
                       Append(prev.hostnameChanges,
                              [Addr |-> t.userInput.ip, When |-> now])
              ELSE t.hostnameChanges = prev.hostnameChanges

\* C14 witness: one retry has resolved to another address; the sequence has
\* exactly two records and the second holds the new address.
C14_Witness ==
    /\ Retried
    /\ Len(prev.hostnameChanges) = 1
    /\ Len(t.hostnameChanges) = 2
    /\ t.hostnameChanges[1] = prev.hostnameChanges[1]
    /\ t.hostnameChanges[2].Addr = "Y"
    /\ t.userInput.ip = "Y"

\* A retry has resolved to the address already recorded; the sequence stays.
C14_SameAddressKept ==
    /\ Retried
    /\ lookedUp = LastAddr(prev.hostnameChanges)
    /\ t.hostnameChanges = prev.hostnameChanges

\* C15: every probe connects to the target address the session has at the
\* time of the probe, the most recently resolved one - with and without a
\* source interface configured.
C15_ProbesGoToTarget ==
    ProbeStep => LastProbe.target = prev.userInput.ip

\* The same for the sessions without a source interface.
C15_ProbesGoToTargetNoInterface ==
    (ProbeStep /\ ~prev.userInput.networkInterface.use) =>
        LastProbe.target = prev.userInput.ip

\* A probe without a source interface after a retry changed the address: it
\* went to the new address.
C15_FollowsNewAddress ==
    /\ ProbeStep
    /\ ~prev.userInput.networkInterface.use
    /\ Len(prev.hostnameChanges) = 2
    /\ LastProbe.target = LastAddr(prev.hostnameChanges)

EventTypes == [i \in 1..Len(t.printer) |-> t.printer[i].type]

\* C17: when the lookup made at start-up fails, the process emits an error
\* event and exits with status 1; no probe was attempted, and neither a start
\* event nor statistics were emitted.
C17_UnresolvedIsFatal ==
    (last = "startup" /\ lookedUp = "lookupError") =>
        /\ exitCode = 1
        /\ pc = "exited"
        /\ EventTypes = <<"error">>
        /\ hist = <<>>
        /\ connStart = 0
        /\ t.totalSuccessfulProbes + t.totalUnsuccessfulProbes = 0

\* C17 witness: the name of the command line did not resolve and the process
\* has exited with status 1.
C17_Witness ==
    /\ last = "startup"
    /\ args.hostname = HostName
    /\ lookedUp = "lookupError"
    /\ t.printer = <<[type |-> "error", msg |-> "cannot resolve"]>>
    /\ exitCode = 1

\* The port argument is an integer in 1..65535.
PortValid(arg) == arg.numeric /\ arg.value >= 1 /\ arg.value <= 65535

\* The -i value, as given, is below 2 ms.
BelowTwoMillis(s) == s.neg \/ Less64(s.millis, Int64(2))

\* The configuration of the command line is one the claim calls invalid.
Invalid(a) ==
    \/ ~PortValid(a.port)
    \/ a.ip4 /\ a.ip6
    \/ BelowTwoMillis(a.secondsBetweenProbes)

\* The process has ended at start-up with an error and status 1; no probe
\* was attempted and no statistics were emitted.
RejectedAtStartup ==
    /\ last = "startup"
    /\ exitCode = 1
    /\ Len(t.printer) >= 1
    /\ t.printer[1].type = "error"
    /\ EventsOf("statistics") = <<>>
    /\ hist = <<>>
    /\ connStart = 0

\* The session in the loop runs on a validated configuration.
LoopConfigValid ==
    (pc # "startup" /\ exitCode # 1) =>
        /\ t.userInput.port >= 1 /\ t.userInput.port <= 65535
        /\ ~(t.userInput.useIPv4 /\ t.userInput.useIPv6)
        /\ t.userInput.intervalBetweenProbes >= 2

\* C18: when the port is not an integer in 1..65535, or both family flags are
\* set, or the probe interval is below 2 ms, the process reports an error and
\* exits with status 1 before any probe and without statistics; in every
\* session that reaches the loop the port is in 1..65535, at most one family
\* flag is set and the interval is at least 2 ms.
C18_OnlyValidatedConfigProbes ==
    /\ (pc # "startup" /\ Invalid(args)) => RejectedAtStartup
    /\ LoopConfigValid

\* The same with the intervals below 2 ms limited to those whose
\* millisecond count times time.Millisecond stays inside an int64.
C18_ValidatedUnlessWrapped ==
    /\ (pc # "startup" /\ Invalid(args)
          /\ IsNeg64(secondsToDuration(args.secondsBetweenProbes))
                 = args.secondsBetweenProbes.neg)
          => RejectedAtStartup
    /\ LoopConfigValid

\* A probe recorded in a session whose -i value is negative.
C18_NegativeIntervalProbes ==
    /\ args.secondsBetweenProbes.neg
    /\ ProbeStep

\* C19: session state is written by main's loop only: a step taken by the
\* termination watcher or the input watcher leaves the end time, the longest
\* records, the RTT summary and the totals as they were.
C19_OnlyMainWritesSession ==
    by # "main" =>
        /\ t.endTime = prev.endTime
        /\ t.longestUptime = prev.longestUptime
        /\ t.longestDowntime = prev.longestDowntime
        /\ t.rttResults = prev.rttResults
        /\ t.totalUptime = prev.totalUptime
        /\ t.totalDowntime = prev.totalDowntime
        /\ t.totalSuccessfulProbes = prev.totalSuccessfulProbes
        /\ t.totalUnsuccessfulProbes = prev.totalUnsuccessfulProbes

\* The termination watcher has stamped the end time and folded the open
\* uptime into the longest record while main stood inside tcpProbe.
C19_WatcherWroteMidProbe ==
    /\ by = "signalHandler"
    /\ connStart # 0
    /\ prev.endTime = 0
    /\ t.endTime = now
    /\ t.longestUptime # prev.longestUptime

\* C20: the process exits with status 0 only through shutdown, and shutdown -
\* called by main at the probe-count limit or by the termination watcher -
\* takes the same steps in the same order: the end time is stamped, then the
\* final statistics are computed and emitted (the snapshot carries that
\* non-zero end time and goes to a sink still open), then a database or CSV
\* sink is released, then the process exits with status 0.
C20_FinalizeOrder ==
    /\ exitCode = 0 => last = "shutdown"
    /\ last = "shutdown" =>
          /\ exitCode = 0
          /\ pc = "exited"
          /\ t.endTime = now
          /\ t.endTime # 0
          /\ Len(t.printer) >= 1
          /\ t.printer[1].type = "statistics"
          /\ t.printer[1].s.endTime = t.endTime
          /\ t.printer[1].s.sink.open
          /\ IF t.sink.kind \in {"database", "csv"}
             THEN /\ EventTypes = <<"statistics", "sinkReleased">>
                  /\ ~t.sink.open
             ELSE /\ EventTypes = <<"statistics">>
                  /\ t.sink.open

\* C20 witness: the probe-count limit has ended a session that writes to a
\* database; the statistics went out and the connection was closed after.
C20_Witness ==
    /\ last = "shutdown"
    /\ by = "main"
    /\ probeCount = t.userInput.probesBeforeQuit
    /\ t.sink = [kind |-> "database", open |-> FALSE]
    /\ EventTypes = <<"statistics", "sinkReleased">>
    /\ exitCode = 0

\* A signal has ended a session that writes to a CSV file, in the same way.
C20_SignalWitness ==
    /\ last = "shutdown"
    /\ by = "signalHandler"
    /\ hist # <<>>
    /\ t.sink = [kind |-> "csv", open |-> FALSE]
    /\ EventTypes = <<"statistics", "sinkReleased">>
    /\ exitCode = 0

\* The session has recorded exactly as many probes as the limit allows and
\* main has run shutdown.
EndedAtLimit ==
    /\ last = "shutdown"
    /\ by = "main"
    /\ exitCode = 0
    /\ Len(hist) = args.probesBeforeQuit
    /\ probeCount = args.probesBeforeQuit

C22_TickEndsCycle ==
    /\ pc = "select" => last \in {"probeError", "probeSuccess"}
    /\ pc = "tick" => last = "limit"
    /\ EndedAtLimit => t.endTime = LastProbe.start + LastProbe.dur

\* What the loop does: the tick is awaited inside tcpProbe, between the
\* recording and the poll, and the limit check follows the poll.
C22_TickBeforePoll ==
    /\ pc = "tick" => last \in {"probeError", "probeSuccess"}
    /\ pc = "select" => last = "tick"
    /\ pc = "limit" => last \in {"printStats", "selectDefault"}
    /\ EndedAtLimit => prev.endTime = 0

\* A session whose limit was reached by a fast probe ends a tick later than
\* that probe did.
C22_ShutdownWaitedForTick ==
    /\ EndedAtLimit
    /\ LastProbe.dur < Interval
    /\ t.endTime > LastProbe.start + LastProbe.dur

\* The process has ended with status 0 and its last output holds a snapshot.
FinalSnapshot == exitCode = 0 /\ PositionsOf("statistics") # {}

\* A dial was in flight when the process ended.
EndedMidDial ==
    /\ exitCode # -1
    /\ connStart # 0
    /\ hist = <<>> \/ LastProbe.start # connStart

C24_AttemptCompletes == exitCode # -1 => ~EndedMidDial

\* Main itself never ends the process during a dial: only the signal handler
\* does.
C24_OnlySignalCutsOff == EndedMidDial => (last = "shutdown" /\ by = "signalHandler")

\* A signal has ended the session while the first dial was in flight: the
\* final snapshot counts no probe.
C24_CutOffFirstDial ==
    /\ EndedMidDial
    /\ hist = <<>>
    /\ t.totalSuccessfulProbes + t.totalUnsuccessfulProbes = 0
    /\ FinalSnapshot

\* The interactive snapshots still to come: one for a watcher blocked on
\* stdinchan, one for every Enter key typed and not yet read.
Owed ==
    (IF stdinPending THEN 1 ELSE 0)
    + Cardinality({i \in (linesRead + 1)..Len(typed) : IsBlankLine(typed[i])})

\* C25: the input watcher sends once for every Enter key it reads and never
\* for another line; the loop's poll never blocks; it shows exactly one
\* snapshot when the watcher is waiting and none otherwise, so at most one per
\* cycle; a snapshot still to come disappears only by being shown; every Enter
\* key typed brings the watcher to wait on stdinchan, and a watcher that waits
\* while a cycle is under way gets its snapshot at that cycle's poll.
C25_EnterKeyGetsOneSnapshot ==
    /\ [][linesRead' # linesRead =>
            /\ linesRead' = linesRead + 1
            /\ stdinPending' = IsBlankLine(typed[linesRead + 1])
            /\ ~stdinPending]_vars
    /\ []((Running /\ pc = "select") => ENABLED (SelectStdin \/ SelectDefault))
    /\ [][(pc = "select" /\ pc' = "limit") =>
            IF stdinPending
            THEN Len(EventsOf("statistics"))' = 1 /\ Owed' = Owed - 1
            ELSE t'.printer = <<>> /\ Owed' = Owed]_vars
    /\ [][Owed' < Owed => (pc = "select" /\ last' = "printStats")]_vars
    /\ [][typed' # typed =>
            Owed' = Owed + (IF IsBlankLine(typed'[Len(typed')]) THEN 1 ELSE 0)]_vars
    /\ (Owed > 0 ~> stdinPending)
    /\ ((stdinPending /\ pc \in {"dialing", "tick", "select"}) ~> last = "printStats")

\* C25 witness: only Enter keys were typed, as many as the model follows, and
\* the snapshot for the last of them has just been shown.
C25_Witness ==
    /\ Len(typed) = MaxLines
    /\ \A i \in 1..Len(typed) : IsBlankLine(typed[i])
    /\ Owed = 0
    /\ last = "printStats"

\* C26: whatever the probes' durations, a probe starts at least one interval
\* after the probe before it started.
C26_StartsIntervalApart ==
    \A i \in 2..Len(hist) : hist[i].start - hist[i - 1].start >= Interval

\* What the ticker gives: a probe starts no earlier than the probe before it
\* ended, and no earlier than the first tick due after that probe started.
C26_StartsAfterATick ==
    \A i \in 2..Len(hist) :
        /\ hist[i].start >= hist[i - 1].start + hist[i - 1].dur
        /\ hist[i].start > hist[i - 1].start

\* A slow probe left a tick waiting in ticker.C, the fast probe after it
\* ended on the next tick, and the third probe started less than an interval
\* after the second.
C26_FastAfterSlow ==
    /\ Len(hist) >= 3
    /\ hist[1].dur > Interval
    /\ hist[2].dur < Interval
    /\ hist[3].start - hist[2].start < Interval

\* The printed hundredths h are within one hundredth of 100 * f / total.
WithinOneHundredth(h, f, total) ==
    LET shown == MulCarry(Int64(total), h, 0)
        exact == MulCarry(Int64(f), 10000, 0)
    IN  /\ ~Less64(AddCarry(exact, total), shown)
        /\ ~Less64(AddCarry(shown, total), exact)

\* The three printers made the same value and the same text of the struct.
SinksAgree ==
    \A i \in 1..Len(t.printer) :
        /\ t.printer[i].loss = t.printer[1].loss
        /\ t.printer[i].text = t.printer[1].text

\* C27: the packet-loss percentage is that of failures among all probes
\* (printed to within a hundredth) when a probe was recorded and 0 when none
\* was; it lies between 0 and 100, is 0 exactly when there were no failures and
\* 100 exactly when there were no successes; the colour, the plain and the
\* JSON printer make the same value of the same struct.
C27_PacketLoss ==
    pc = "printed" =>
        LET s == t.totalSuccessfulProbes
            f == t.totalUnsuccessfulProbes
            loss == t.printer[1].loss
        IN  /\ SinksAgree
            /\ s + f = 0 => loss = Float32Zero
            /\ s + f > 0 => WithinOneHundredth(t.printer[1].text, f, s + f)
            /\ ~Float32Less(Float32FromInt(100), loss)
            /\ (loss = Float32Zero) <=> (f = 0)
            /\ s + f > 0 => ((loss = Float32FromInt(100)) <=> (s = 0))

\* C27 for the sessions whose counts float32 holds exactly, fewer than 2^24
\* probes: there the claim holds in full. Beyond them everything but "100
\* only when there were no successes" holds.
C27_PacketLossBelowSaturation ==
    pc = "printed" =>
        LET s == t.totalSuccessfulProbes
            f == t.totalUnsuccessfulProbes
            loss == t.printer[1].loss
        IN  /\ SinksAgree
            /\ s + f = 0 => loss = Float32Zero
            /\ s + f > 0 => WithinOneHundredth(t.printer[1].text, f, s + f)
            /\ ~Float32Less(Float32FromInt(100), loss)
            /\ (loss = Float32Zero) <=> (f = 0)
            /\ s + f > 0 => (s = 0 => loss = Float32FromInt(100))
            /\ (0 < s + f /\ s + f < Pow2(24)) => (loss = Float32FromInt(100) => s = 0)

\* One success among 2^24 failures is reported as a loss of exactly 100.
C27_SaturatedLoss ==
    /\ pc = "printed"
    /\ t.totalSuccessfulProbes = 1
    /\ t.totalUnsuccessfulProbes = Pow2(24)
    /\ t.printer[1].loss = Float32FromInt(100)

\* The samples in another order.
Reordered(a, p) == [i \in 1..Len(a) |-> a[p[i]]]

\* min is a sample no sample is below, max a sample no sample is above, and
\* the flag tells whether there are samples.
MinMaxRight ==
    LET a == t.rtt
        r == t.rttResults
    IN  /\ r.hasResults = (a # <<>>)
        /\ a # <<>> =>
              /\ \E i \in 1..Len(a) : a[i] = r.min
              /\ \A i \in 1..Len(a) : ~Float32Less(a[i], r.min)
              /\ \E i \in 1..Len(a) : a[i] = r.max
              /\ \A i \in 1..Len(a) : ~Float32Less(r.max, a[i])

\* x enlarged by one part in 2^20, a few float32 roundings.
Slack(x) == IF x.m = 0 THEN x ELSE Float32Add(x, [m |-> x.m, e |-> x.e - 20])

\* C28: for samples that are not negative hasResults is true exactly when
\* there are samples, min is the smallest and max the largest of them, the
\* average is their sum divided by their number and lies between min and max,
\* and the result does not depend on the order of the samples.
C28_RttSummary ==
    pc = "summarized" =>
        LET a == t.rtt
            r == t.rttResults
        IN  /\ MinMaxRight
            /\ a # <<>> =>
                  /\ r.average = Float32Div(SumSeq(a, Float32Zero), Float32FromInt(Len(a)))
                  /\ ~Float32Less(r.average, r.min)
                  /\ ~Float32Less(r.max, r.average)
                  /\ \A p \in Permutations(1..Len(a)) :
                        calcMinAvgMaxRttTime(Reordered(a, p)) = r

\* What holds of the summary: min, max and the flag are right and do not
\* depend on the order, and the average is between min and max, and the same
\* in every order, only up to float32 rounding.
C28_RttSummaryUpToRounding ==
    pc = "summarized" =>
        LET a == t.rtt
            r == t.rttResults
        IN  /\ MinMaxRight
            /\ a # <<>> =>
                  /\ ~Float32Less(Slack(r.average), r.min)
                  /\ ~Float32Less(Slack(r.max), r.average)
                  /\ \A p \in Permutations(1..Len(a)) :
                        LET o == calcMinAvgMaxRttTime(Reordered(a, p))
                        IN  /\ o.min = r.min /\ o.max = r.max
                            /\ o.hasResults = r.hasResults
                            /\ ~Float32Less(Slack(o.average), r.average)
                            /\ ~Float32Less(Slack(r.average), o.average)

\* Three equal samples whose average is below all of them.
C28_AverageBelowMin ==
    /\ pc = "summarized"
    /\ Len(t.rtt) = 3
    /\ t.rtt[1] = t.rtt[2] /\ t.rtt[2] = t.rtt[3]
    /\ Float32Less(t.rttResults.average, t.rttResults.min)

\* Three equal samples whose average is above all of them.
C28_AverageAboveMax ==
    /\ pc = "summarized"
    /\ Len(t.rtt) = 3
    /\ t.rtt[1] = t.rtt[2] /\ t.rtt[2] = t.rtt[3]
    /\ Float32Less(t.rttResults.max, t.rttResults.average)

\* Samples whose average is another number when they come in another order.
C28_OrderChangesAverage ==
    /\ pc = "summarized"
    /\ \E p \in Permutations(1..Len(t.rtt)) :
          calcMinAvgMaxRttTime(Reordered(t.rtt, p)).average # t.rttResults.average

\* The addresses of a list.
Members(ipAddrs) == {ipAddrs[i] : i \in 1..Len(ipAddrs)}

\* selectResolvedIP has run.
Selected == last = "selectResolvedIP"

\* The address chosen is a resolved address or the IPv4 address mapped into
\* one.
FromResolvedSet ==
    pc = "selected" => \E a \in Members(lookedUp) : t.userInput.ip \in {a, Unmap(a)}

\* The process has ended with an error event and status 1.
ExitedWithError == exitCode = 1 /\ PositionsOf("error") # {}

\* C29: the selection honours the family preference: with IPv4 only the
\* address chosen is an IPv4 address, with IPv6 only an IPv6 address, with
\* neither a resolved address; it always derives from a member of the resolved
\* set; and when no resolved address is of the family asked for, the process
\* emits an error event and exits with status 1.
C29_FamilyHonoured ==
    Selected =>
        /\ FromResolvedSet
        /\ (pc = "selected" /\ t.userInput.useIPv4) => Is4(t.userInput.ip)
        /\ (pc = "selected" /\ t.userInput.useIPv6) =>
              (Is6(t.userInput.ip) /\ ~Is4In6(t.userInput.ip))
        /\ (t.userInput.useIPv4
              /\ \A a \in Members(lookedUp) : ~Is4(Unmap(a))) => ExitedWithError
        /\ (t.userInput.useIPv6
              /\ \A a \in Members(lookedUp) : Is4(Unmap(a))) => ExitedWithError
        /\ exitCode # -1 => ExitedWithError

\* What holds: the IPv4 preference and the absence of a preference are
\* honoured, the address derives from the resolved set, and the process ends
\* only with an error event and status 1, when the branch's list is empty;
\* but the IPv6 branch's list holds the IPv4-mapped addresses too.
C29_FamilyHonouredButMapped ==
    Selected =>
        /\ FromResolvedSet
        /\ (pc = "selected" /\ t.userInput.useIPv4) => Is4(t.userInput.ip)
        /\ (pc = "selected" /\ t.userInput.useIPv6) =>
              \E a \in Members(lookedUp) : Is6(a) /\ t.userInput.ip = Unmap(a)
        /\ (t.userInput.useIPv4
              /\ \A a \in Members(lookedUp) : ~Is4(Unmap(a))) => ExitedWithError
        /\ (t.userInput.useIPv6
              /\ \A a \in Members(lookedUp) : ~Is6(a)) => ExitedWithError
        /\ exitCode # -1 =>
              /\ ExitedWithError
              /\ t.userInput.useIPv4 \/ t.userInput.useIPv6

\* With IPv6 only asked for and nothing but an IPv4-mapped address resolved,
\* the address chosen is an IPv4 address.
C29_SixGivesFour ==
    /\ pc = "selected"
    /\ t.userInput.useIPv6
    /\ \A a \in Members(lookedUp) : Is4In6(a)
    /\ Is4(t.userInput.ip)

\* The target given on the command line is a literal address.
LiteralTarget == ~ParseAddr(args.hostname).err

\* C30: a target that parses as an address is used as parsed and no lookup is
\* ever made for it; the retry policy is never active for it, whatever the
\* threshold: the retry counter stays 0, no retrying-resolve event is emitted
\* and the address-change sequence keeps its one record.
C30_LiteralNeverRetries ==
    (InSession /\ LiteralTarget) =>
        /\ lookedUp = "none"
        /\ t.userInput.ip = ParseAddr(args.hostname).ip
        /\ ~t.userInput.shouldRetryResolve
        /\ t.retriedHostnameLookups = 0
        /\ PositionsOf("retryingResolve") = {}
        /\ Len(t.hostnameChanges) = 1

\* What holds for every literal target: the address is used as parsed, no
\* lookup is made and the address-change sequence keeps its one record; and
\* for a literal in the spelling netip.Addr.String produces the policy is off.
C30_LiteralNeverLookedUp ==
    (InSession /\ LiteralTarget) =>
        /\ lookedUp = "none"
        /\ t.userInput.ip = ParseAddr(args.hostname).ip
        /\ Len(t.hostnameChanges) = 1
        /\ args.hostname = AddrString(ParseAddr(args.hostname).ip) =>
              /\ ~t.userInput.shouldRetryResolve
              /\ t.retriedHostnameLookups = 0
              /\ PositionsOf("retryingResolve") = {}

\* A literal target in another spelling, with a threshold: the retry step has
\* emitted the retrying-resolve event and counted a retry.
C30_LiteralCountedRetry ==
    /\ InSession /\ LiteralTarget
    /\ last = "retryResolve"
    /\ PositionsOf("retryingResolve") # {}
    /\ t.retriedHostnameLookups > 0
    /\ lookedUp = "none"

\* ------------------------------------------------------------- C31
\* The struct as the same session holds it with failures-only display the
\* other way round.
ModeFlipped(tc) == [tc EXCEPT !.userInput.showFailuresOnly = ~@]

\* The events other than probe-success events; a statistics event carries the
\* struct, whose copy of the flag is set aside.
IsNoProbeSuccess(e) == e.type # "probeSuccess"

ModeSetAside(e) ==
    IF e.type = "statistics" THEN [e EXCEPT !.s.userInput.showFailuresOnly = FALSE] ELSE e

OtherEvents(p) ==
    LET q == SelectSeq(p, IsNoProbeSuccess) IN [i \in 1..Len(q) |-> ModeSetAside(q[i])]

\* Two structs agree in everything but the flag and the probe-success events.
SameButMode(a, b) ==
    /\ [a EXCEPT !.printer = <<>>, !.userInput.showFailuresOnly = FALSE]
         = [b EXCEPT !.printer = <<>>, !.userInput.showFailuresOnly = FALSE]
    /\ OtherEvents(a.printer) = OtherEvents(b.printer)

\* What a retry step makes of the struct: the fatal lookup's error and exit,
\* or retryResolveHostname's result.
RetryOutcome(tc, lookup, at) ==
    IF /\ tc.ongoingUnsuccessfulProbes >= tc.userInput.retryHostnameLookupAfter
       /\ resolveHostname(tc, lookup).fatal
    THEN [tc |-> [tc EXCEPT !.printer = printError(@, "cannot resolve")], exit |-> TRUE]
    ELSE [tc |-> retryResolveHostname(tc, lookup, at), exit |-> FALSE]

\* The latest step, made on the struct tc with the inputs the session's own
\* latest step had, leaves the struct as t is, up to the flag and the
\* probe-success events.
SameStep(tc) ==
    CASE last = "startup" ->
           \A lookup \in FirstLookups :
               LET p == processUserInput(Fresh(prev), args, lookup, now)
                   q == processUserInput(Fresh(prev),
                                         [args EXCEPT !.showFailuresOnly = ~@], lookup, now)
               IN  p.exit = q.exit /\ SameButMode(p.tc, q.tc)
      [] last = "retryResolve" ->
           /\ \E lookup \in LookupResults :
                 /\ RetryOutcome(Fresh(prev), lookup, now).tc = t
                 /\ RetryOutcome(Fresh(prev), lookup, now).exit = (exitCode = 1)
           /\ \A lookup \in LookupResults :
                 (/\ RetryOutcome(Fresh(prev), lookup, now).tc = t
                  /\ RetryOutcome(Fresh(prev), lookup, now).exit = (exitCode = 1))
                 => /\ SameButMode(RetryOutcome(Fresh(tc), lookup, now).tc, t)
                    /\ RetryOutcome(Fresh(tc), lookup, now).exit = (exitCode = 1)
      [] last = "probeError" ->
           SameButMode(handleConnError(Fresh(tc), LastProbe.start,
                           maxDuration(LastProbe.dur, tc.userInput.intervalBetweenProbes)),
                       t)
      [] last = "probeSuccess" ->
           SameButMode(handleConnSuccess(Fresh(tc),
                           nanoToMillisecond(LastProbe.dur * NanosPerMilli),
                           LastProbe.start,
                           maxDuration(LastProbe.dur, tc.userInput.intervalBetweenProbes)),
                       t)
      [] last = "printStats" -> SameButMode(printStats(Fresh(tc), now), t)
      [] last = "shutdown" -> SameButMode(shutdown(Fresh(tc), now), t)
      [] OTHER -> SameButMode(Fresh(tc), t)

\* C31: whatever step the session has just made, the same step made with
\* failures-only display the other way round leaves the same tracker state
\* and emits the same probe-failure, recovered, statistics and other events;
\* a recorded success emits its probe-success event exactly when the mode is
\* off. Step by step, two sessions with the same probe outcomes therefore
\* differ in the probe-success events only.
C31_ModeOnlyHidesSuccesses ==
    /\ SameStep(ModeFlipped(prev))
    /\ last = "probeSuccess" =>
          (PositionsOf("probeSuccess") # {} <=> ~t.userInput.showFailuresOnly)
    /\ last # "probeSuccess" => PositionsOf("probeSuccess") = {}

\* C31 witness: with failures-only display on, a success recorded while the
\* tracker was Down has emitted the recovered event and no probe-success
\* event.
C31_Witness ==
    /\ last = "probeSuccess"
    /\ t.userInput.showFailuresOnly
    /\ prev.destWasDown
    /\ PositionsOf("totalDownTime") # {}
    /\ PositionsOf("probeSuccess") = {}

\* ------------------------------------------------------------- C32
\* The -t value is strictly positive.
PositiveSeconds(s) == ~s.neg /\ (s.millis # Int64(0) \/ s.micros > 0)

\* The -t value is zero.
ZeroSeconds(s) == s.millis = Int64(0) /\ s.micros = 0

\* C32 (as claimed): an attempt made under a strictly positive -t value has a
\* strictly positive timeout, hence a deadline; only -t 0 leaves an attempt
\* without one.
C32_PositiveTimeoutBounds ==
    pc = "dialing" =>
        /\ PositiveSeconds(args.timeout) => Less64(Int64(0), t.userInput.timeout)
        /\ ~HasDeadline(t) => ZeroSeconds(args.timeout)

\* What does hold: a -t value of whole milliseconds and a fraction, below the
\* wrap, becomes that many milliseconds, the fraction dropped; -t 0 gives no
\* deadline; every attempt made under a deadline has returned by it.
C32_WholeMillisecondsBound ==
    LET m == args.timeout.millis[1]
    IN  /\ (pc = "dialing" /\ args.timeout.millis = Int64(m)) =>
              /\ t.userInput.timeout = TimesMillisecond(Int64(m))
              /\ HasDeadline(t) <=> m > 0
        /\ \A i \in 1..Len(hist) :
              (args.timeout.millis = Int64(m) /\ m > 0) => hist[i].dur <= m

\* A -t of half a millisecond: the timeout is zero, and an attempt has gone on
\* for longer than the interval.
C32_SubMillisecondUnbounded ==
    /\ args.timeout = FlagSeconds(FALSE, Int64(0), 500)
    /\ t.userInput.timeout = Int64(0)
    /\ hist # <<>>
    /\ LastProbe.dur > Interval

\* A -t of 9223372036.8555 seconds: the timeout is negative, and every attempt
\* fails at once.
C32_WrappedTimeout ==
    /\ PositiveSeconds(args.timeout)
    /\ IsNeg64(t.userInput.timeout)
    /\ Len(hist) = MaxProbes
    /\ \A i \in 1..Len(hist) : ~hist[i].ok /\ hist[i].dur = 1

\* ------------------------------------------------------------- C33
\* The latest step has emitted the final summary: it is shutdown's printStats.
FinalSummaryEmitted ==
    /\ last \in {"shutdown", "shutdownPrintStats"}
    /\ PositionsOf("statistics") # {}

\* The latest step has released the sink.
SinkReleased == PositionsOf("sinkReleased") # {}

\* C33 (as claimed): the final summary is emitted only in a session that has
\* emitted none yet (no shutdown had set endTime before), and the sink is
\* released only while it is open: each happens at most once, also when the
\* signal is received during main's own shutdown or after an interactive
\* snapshot.
C33_FinalizedOnce ==
    /\ FinalSummaryEmitted => prev.endTime = 0
    /\ SinkReleased => prev.sink.open

\* What does hold: main alone finalizes once; a second summary or a second
\* release is always the signal handler's, run after main's shutdown had
\* begun.
C33_OnceButForTheSignal ==
    /\ (FinalSummaryEmitted /\ by = "main") => prev.endTime = 0
    /\ (SinkReleased /\ by = "main") => prev.sink.open
    /\ (FinalSummaryEmitted /\ prev.endTime # 0) => by = "signalHandler"

\* The signal was received after main's shutdown had printed the final
\* summary and released the CSV sink: the summary is out twice and the sink
\* is released again.
C33_FinalizedTwice ==
    /\ exitCode = 0
    /\ by = "signalHandler"
    /\ FinalSummaryEmitted
    /\ prev.endTime # 0
    /\ SinkReleased
    /\ ~prev.sink.open
    /\ t.sink.kind = "csv"

\* The signal was received right after an interactive snapshot: one snapshot
\* and one final summary, the latter emitted once.
C33_SignalAfterSnapshot ==
    /\ by = "signalHandler"
    /\ FinalSummaryEmitted
    /\ prev.endTime = 0
    /\ prev.printer # <<>>
    /\ prev.printer[Len(prev.printer)].type = "statistics"

\* ------------------------------------------------------------- C34
\* The probes a snapshot counts, and their elapsed values taken together.
Counted(s) == s.totalSuccessfulProbes + s.totalUnsuccessfulProbes

\* A snapshot is the tracker between two fully recorded probes: it counts
\* recorded probes, its accumulated time is the elapsed time of exactly those,
\* it has one RTT sample per success, and its flag agrees with its markers
\* (Down: downtime marker set, uptime marker clear; Up: downtime marker clear).
ConsistentSnapshot(s) ==
    /\ Counted(s) <= Len(hist)
    /\ s.totalUptime + s.totalDowntime = AccrualSum(SubSeq(hist, 1, Counted(s)))
    /\ Len(s.rtt) = s.totalSuccessfulProbes
    /\ IF s.destWasDown
       THEN s.startOfUptime = 0 /\ s.startOfDowntime # 0
       ELSE s.startOfDowntime = 0

\* The handlers taken statement by statement are the handlers.
StatementsMakeHandlers ==
    /\ last = "probeError" =>
          t = handleConnErrorUpTo(Fresh(prev), LastProbe.start,
                  maxDuration(LastProbe.dur, prev.userInput.intervalBetweenProbes), 9)
    /\ last = "probeSuccess" =>
          t = handleConnSuccessUpTo(Fresh(prev),
                  nanoToMillisecond(LastProbe.dur * NanosPerMilli), LastProbe.start,
                  maxDuration(LastProbe.dur, prev.userInput.intervalBetweenProbes), 14)

\* C34 (as claimed): every statistics snapshot emitted, interactive or final,
\* also the one of a signal received while an outcome is being recorded, is
\* the tracker between two fully recorded probes.
C34_SnapshotsConsistent ==
    \A i \in PositionsOf("statistics") : ConsistentSnapshot(t.printer[i].s)

\* What does hold: a snapshot taken between two of main's steps is
\* consistent, and the handlers taken statement by statement are the
\* handlers of the other specifications.
C34_ConsistentBetweenSteps ==
    /\ last # "shutdownWhileRecording" => C34_SnapshotsConsistent
    /\ StatementsMakeHandlers

\* A signal received inside handleConnSuccess, after totalSuccessfulProbes++
\* and before the RTT sample is appended: the final summary counts a success
\* more than it has samples.
C34_TornSamples ==
    /\ last = "shutdownWhileRecording"
    /\ \E i \in PositionsOf("statistics") :
          /\ Len(t.printer[i].s.rtt) + 1 = t.printer[i].s.totalSuccessfulProbes
          /\ t.printer[i].s.totalUptime = AccrualSum(hist)

\* A signal received inside handleConnError, between startOfDowntime being
\* set and destWasDown being set: the final summary says Up with the
\* downtime marker set, or has the elapsed time of a failure it does not
\* count.
C34_TornFlagAndTime ==
    /\ last = "shutdownWhileRecording"
    /\ ~LastProbe.ok
    /\ \E i \in PositionsOf("statistics") :
          \/ ~t.printer[i].s.destWasDown /\ t.printer[i].s.startOfDowntime # 0
          \/ /\ t.printer[i].s.totalDowntime + t.printer[i].s.totalUptime = AccrualSum(hist)
             /\ Counted(t.printer[i].s) = Len(hist) - 1

\* ------------------------------------------------------------- C35
\* The struct with the fields a retry may write, and the step's output, taken
\* from another struct.
RetryFieldsFrom(tc, other) ==
    [tc EXCEPT !.userInput.ip = other.userInput.ip,
               !.ongoingUnsuccessfulProbes = other.ongoingUnsuccessfulProbes,
               !.retriedHostnameLookups = other.retriedHostnameLookups,
               !.hostnameChanges = other.hostnameChanges,
               !.printer = other.printer]

\* The retry step has made a re-resolution.
Reresolved == last = "retryResolve" /\ t.retriedHostnameLookups = prev.retriedHostnameLookups + 1

\* C35: a retry step changes nothing but the target address, the failure
\* streak, the retry counter and the address changes: the flag, both markers,
\* both longest records, the totals, the accumulated times and all the rest
\* stay. A re-resolution clears the failure streak, counts one retry, and
\* appends the address to the changes exactly when it differs from the last
\* one recorded. The downtime that the next success closes therefore is one
\* interval: the recovered event and the downtime folded into the longest
\* record run from the first failure's start to the recovering probe's start,
\* whatever retries came in between.
C35_RetryKeepsIntervals ==
    /\ last = "retryResolve" =>
          /\ RetryFieldsFrom(t, prev) = prev
          /\ t.retriedHostnameLookups \in
                {prev.retriedHostnameLookups, prev.retriedHostnameLookups + 1}
          /\ ~Reresolved =>
                /\ t.userInput.ip = prev.userInput.ip
                /\ t.ongoingUnsuccessfulProbes = prev.ongoingUnsuccessfulProbes
                /\ t.hostnameChanges = prev.hostnameChanges
    /\ Reresolved =>
          /\ t.ongoingUnsuccessfulProbes = 0
          /\ t.hostnameChanges =
                IF prev.hostnameChanges[Len(prev.hostnameChanges)].Addr # t.userInput.ip
                THEN Append(prev.hostnameChanges, [Addr |-> t.userInput.ip, When |-> now])
                ELSE prev.hostnameChanges
    /\ (last = "probeSuccess" /\ prev.destWasDown) =>
          /\ prev.startOfDowntime = RunStart(Earlier)
          /\ \A i \in PositionsOf("totalDownTime") :
                t.printer[i].downtime = LastProbe.start - RunStart(Earlier)
          /\ t.longestDowntime \in
                {prev.longestDowntime,
                 newLongestTime(RunStart(Earlier), LastProbe.start - RunStart(Earlier))}

\* C35 witness: two failures, a re-resolution to another address between
\* them and one after them, and the recovering success: the recovered event
\* and the longest downtime run from the first failure.
C35_Witness ==
    /\ last = "probeSuccess"
    /\ Len(hist) = 3
    /\ ~hist[1].ok /\ ~hist[2].ok /\ hist[3].ok
    /\ t.retriedHostnameLookups = 2
    /\ Len(t.hostnameChanges) >= 2
    /\ PositionsOf("totalDownTime") # {}
    /\ t.printer[1].downtime = hist[3].start - hist[1].start
    /\ t.longestDowntime.start = hist[1].start
    /\ t.longestDowntime.duration = hist[3].start - hist[1].start

====
